---- MODULE Spec2Model ----
(***************************************************************************)
(* Android-Energy-Debugger: the event dispatcher of the task graph engine  *)
(* (ProcessTree.handle_event) as a state machine.  One action per event    *)
(* kind; every action is the whole handler call for one event.             *)
(*                                                                         *)
(* ProcessBranch, TaskNode and the SystemEvents classes are not part of    *)
(* the sources at hand; the operators that stand for them are written from *)
(* the design document and are marked as such where they are defined.      *)
(***************************************************************************)
EXTENDS Integers, Sequences, FiniteSets, TLC

(* ---------------------------- bounds ----------------------------------- *)
\* number of events of the trace
MaxEvents == 4

(* ------------------------ the PID classifier --------------------------- *)
\* PIDs that occur in the trace: 0 idle, 1 application thread, 2 system
\* service, 3 binder thread of service 2, 4 a thread the classifier never saw
PIDS == 0..4

\* PIDTool.__init__: the main PID and the idle process are application PIDs
InitAppPids == {0, 1}

\* PIDTool._find_system_server_pids
InitSystemPids == {2}

\* PIDTool._find_binder_pids
InitBinderPids == {3}

\* PIDTool.find_child_binder_threads(pid): the binder threads of a process
find_child_binder_threads(pid) == IF pid = 2 THEN {3} ELSE {}

VARIABLES
    app_pids,               \* pidtracer.app_pids (keys)
    system_pids,            \* pidtracer.system_pids (keys)
    binder_pids,            \* pidtracer.binder_pids (keys)
    process_branches,       \* pid -> sequence of tasks
    binder_branches,        \* pid -> sequence of binder tasks
    pending_binder_calls,   \* sequence of first halves
    completed_binder_calls, \* sequence of completed transactions
    graph,                  \* edges added by handle_event
    clock,                  \* timestamp of the latest event
    nextId,                 \* number of stored binder events so far
    nEvents,                \* number of events handled so far
    status,                 \* "ok", or "raised" once handle_event raised
    current_core_freqs,     \* metrics.current_core_freqs, core -> frequency
    current_core_utils,     \* metrics.current_core_utils, core -> utilization
    cpus,                   \* core -> frequency events of its CPU branch
    current_gpu,            \* metrics.current_gpu_freq and current_gpu_util
    cpu_table,              \* sys_util_history.cpu[0], a CPUUtilizationTable
    cpu_table1,             \* sys_util_history.cpu[1]
    gpu_table,              \* sys_util_history.gpu, the GPUUtilizationTable
    sys_temps,              \* metrics.unprocessed_temps and metrics.sys_temps
    evaluation,             \* finish_tree: the task under evaluation, its tags
    energy_timeline,        \* finish_tree: the rows of the energy timeline
    logger                  \* the SysLogger: its status, the commands sent

\* the task graph engine
treeVars == <<app_pids, system_pids, binder_pids, process_branches,
              binder_branches, pending_binder_calls, completed_binder_calls,
              graph, nextId>>

\* the system metrics
metricVars == <<current_core_freqs, current_core_utils, cpus, current_gpu,
                cpu_table, cpu_table1, gpu_table, sys_temps, evaluation,
                energy_timeline, logger>>

\* the second core's table, the temperature table, the report and the logger
reportVars == <<cpu_table1, sys_temps, evaluation, energy_timeline, logger>>

vars == <<app_pids, system_pids, binder_pids, process_branches,
          binder_branches, pending_binder_calls, completed_binder_calls,
          graph, clock, nextId, nEvents, status, current_core_freqs,
          current_core_utils, cpus, current_gpu, cpu_table, cpu_table1,
          gpu_table, sys_temps, evaluation, energy_timeline, logger>>

(* ----------------------------- values ---------------------------------- *)
NoEvent == [kind |-> "none"]
NoTask == [pid |-> -1, idx |-> 0]

TaskRef(pid, idx) == [pid |-> pid, idx |-> idx]
BinderRef(pid, idx) == [pid |-> pid, idx |-> idx, binder |-> TRUE]

\* a task as ProcessBranch creates it on a switch-in
NewTask(time) ==
    [start_time |-> time, duration |-> 0, open |-> TRUE,
     dep_type |-> "NONE", prev_task |-> NoTask, next_task |-> NoTask]

\* SystemEvents.FirstHalfBinderTransaction(event, target_pid, pidtracer)
FirstHalfBinderTransaction(ev, parent_pid) ==
    [parent_pid |-> parent_pid,
     child_pids |-> find_child_binder_threads(parent_pid),
     send_event |-> ev]

\* SystemEvents.CompletedBinderTransaction(second_half, first_half = None)
CompletedBinderTransaction(second_half, first_half) ==
    IF first_half = NoEvent
    THEN [caller_pid |-> second_half.pid,
          target_pid |-> second_half.target_pid,
          binder_thread |-> second_half.pid,
          transaction_type |-> second_half.trans_type,
          first_half |-> NoEvent,
          second_half |-> second_half]
    ELSE [caller_pid |-> first_half.pid,
          target_pid |-> first_half.target_pid,
          binder_thread |-> second_half.pid,
          transaction_type |-> second_half.trans_type,
          first_half |-> first_half,
          second_half |-> second_half]

(* ------------------------- sequence helpers ---------------------------- *)
\* del seq[x]
DelAt(seq, x) == [i \in 1..(Len(seq) - 1) |-> IF i < x THEN seq[i] ELSE seq[i + 1]]

Last(seq) == seq[Len(seq)]

(* --------------------------- ProcessBranch ----------------------------- *)
\* ProcessBranch.add_event(event, SCHED_SWITCH_OUT): close the current task
SwitchOutTasks(tasks, time) ==
    IF Len(tasks) > 0 /\ Last(tasks).open
    THEN [tasks EXCEPT ![Len(tasks)] =
            [Last(tasks) EXCEPT !.duration = time - Last(tasks).start_time,
                                !.open = FALSE]]
    ELSE tasks

\* ProcessBranch.add_event(event, SCHED_SWITCH_IN): start a task; a task
\* still open is closed by the next switch-in of its PID
SwitchInTasks(tasks, time) ==
    Append(SwitchOutTasks(tasks, time), NewTask(time))

\* ProcessBranch.add_event(event, BINDER_SEND / BINDER_RECV)
BinderTask(type, ev) == [type |-> type, event |-> ev]

(* --------------------------- system metrics ---------------------------- *)
\* nproc of the device: two clusters of four cores
CoreCount == 8
ClusterSize == 4
Cores == 0..(CoreCount - 1)

\* frequencies as the trace names them; every core starts at InitFreq
InitFreq == 1
FreqValues == {2, 3}

\* the state field of a cpu_idle event that leaves idle: 4294967295, all 32
\* bits set, written here as the signed value of the same 32 bits
IdleExit == -1

\* Python values of core_state: an int, a bool (v is 0 or 1) or the enum
\* member IdleState.is_not_idle
PyInt(n) == [t |-> "int", v |-> n]
PyBool(b) == [t |-> "bool", v |-> IF b THEN 1 ELSE 0]
PyIsNotIdle == [t |-> "enum", v |-> 1]
Truthy(x) == IF x.t = "enum" THEN TRUE ELSE x.v # 0

\* UtilizationTable.__init__ and CPUUtilizationTable.__init__
NewCPUUtilizationTable ==
    [start_time |-> 0, last_event_time |-> 0, core_state |-> PyInt(0),
     events |-> <<>>, utils |-> <<>>, compiled |-> FALSE]

\* UtilizationTable.__init__ and GPUUtilizationTable.__init__
NewGPUUtilizationTable ==
    [start_time |-> 0, last_event_time |-> 0, events |-> <<>>,
     current_util |-> 0, finish_time |-> 0]

\* SystemTemps.__init__, with metrics.unprocessed_temps = []
NewSystemTemps ==
    [unprocessed |-> <<>>, temps |-> <<>>, initial_time |-> 0, end_time |-> 0,
     compiled |-> FALSE]

\* finish_tree has evaluated no task yet
NoEvaluation == [evaluated |-> FALSE]

\* finish_tree has not come to the energy timeline yet
NoTimeline == [written |-> FALSE]

\* SysLogger.__init__: status INIT, no command sent to the device yet
NewSysLogger == [status |-> "INIT", commands |-> <<>>]

\* nothing reported yet, the logger as constructed
InitReporting ==
    /\ energy_timeline = NoTimeline
    /\ logger = NewSysLogger

\* SystemMetrics.__init__
InitMetrics ==
    /\ current_core_freqs = [c \in Cores |-> InitFreq]
    /\ current_core_utils = [c \in Cores |-> 0]
    /\ cpus = [c \in Cores |-> <<>>]
    /\ current_gpu = [freq |-> InitFreq, util |-> 0]
    /\ cpu_table = NewCPUUtilizationTable
    /\ cpu_table1 = NewCPUUtilizationTable
    /\ gpu_table = NewGPUUtilizationTable

\* ProcessTree.__init__
InitTree ==
    /\ app_pids = InitAppPids
    /\ system_pids = InitSystemPids
    /\ binder_pids = InitBinderPids
    /\ process_branches = [p \in InitAppPids \cup InitSystemPids |-> <<>>]
    /\ binder_branches = [p \in InitBinderPids |-> <<>>]
    /\ pending_binder_calls = <<>>
    /\ completed_binder_calls = <<>>
    /\ graph = {}
    /\ clock = 0
    /\ nextId = 0
    /\ nEvents = 0
    /\ status = "ok"

Init ==
    /\ InitTree
    /\ InitMetrics
    /\ sys_temps = NewSystemTemps
    /\ evaluation = NoEvaluation
    /\ InitReporting

(* ------------------- handle_event: binder transaction ------------------ *)
BinderEvent(id, time, pid, target_pid, trans_type) ==
    [kind |-> "binder", id |-> id, time |-> time, pid |-> pid,
     target_pid |-> target_pid, trans_type |-> trans_type]

\* the test of the reply scan: the reply's sender is one of the first half's
\* binder-thread children or its target (parent) PID
ReplyMatches(ev, transaction) ==
    \/ ev.pid \in transaction.child_pids
    \/ ev.pid = transaction.parent_pid

\* ReplyScan that leaves a matched first half in the pending queue
RECURSIVE ReplyScan_NoDel(_, _, _, _, _)
ReplyScan_NoDel(x, snapshot, ev, pend, comp) ==
    IF x = 0 THEN [pend |-> pend, comp |-> comp]
    ELSE IF ReplyMatches(ev, snapshot[x])
         THEN ReplyScan_NoDel(x - 1, snapshot, ev, pend,
                        Append(comp, CompletedBinderTransaction(ev, snapshot[x].send_event)))
         ELSE ReplyScan_NoDel(x - 1, snapshot, ev, pend, comp)

\* for x, transaction in reversed(list(enumerate(pending_binder_calls))):
\* snapshot is the copy that is iterated, pend the live list that is edited
RECURSIVE ReplyScan(_, _, _, _, _)
ReplyScan(x, snapshot, ev, pend, comp) ==
    IF x = 0 THEN [pend |-> pend, comp |-> comp]
    ELSE IF ReplyMatches(ev, snapshot[x])
         THEN ReplyScan(x - 1, snapshot, ev, DelAt(pend, x),
                        Append(comp, CompletedBinderTransaction(ev, snapshot[x].send_event)))
         ELSE ReplyScan(x - 1, snapshot, ev, pend, comp)

\* elif isinstance(event, EventBinderTransaction), trans_type == CALL
HandleBinderCall(time, pid, target_pid) ==
    LET ev == BinderEvent(nextId + 1, time, pid, target_pid, "CALL")
        tracked == pid \in app_pids \/ pid \in system_pids
    IN  /\ status = "ok"
        /\ nEvents < MaxEvents
        /\ nEvents' = nEvents + 1
        /\ clock' = time
        /\ pending_binder_calls' =
              IF tracked
              THEN Append(pending_binder_calls, FirstHalfBinderTransaction(ev, target_pid))
              ELSE pending_binder_calls
        /\ nextId' = IF tracked THEN nextId + 1 ELSE nextId
        /\ UNCHANGED <<app_pids, system_pids, binder_pids, process_branches,
                       binder_branches, completed_binder_calls, graph, status>>
        /\ UNCHANGED metricVars

\* HandleBinderAsync that queues the async event as a pending first half
HandleBinderAsync_Pending(time, pid, target_pid) ==
    LET ev == BinderEvent(nextId + 1, time, pid, target_pid, "ASYNC")
        tracked == pid \in app_pids \/ pid \in system_pids
    IN  /\ status = "ok"
        /\ nEvents < MaxEvents
        /\ nEvents' = nEvents + 1
        /\ clock' = time
        /\ pending_binder_calls' =
              IF tracked
              THEN Append(pending_binder_calls, FirstHalfBinderTransaction(ev, target_pid))
              ELSE pending_binder_calls
        /\ nextId' = IF tracked THEN nextId + 1 ELSE nextId
        /\ UNCHANGED <<app_pids, system_pids, binder_pids, process_branches,
                       binder_branches, completed_binder_calls, graph, status>>
        /\ UNCHANGED metricVars

\* elif isinstance(event, EventBinderTransaction), trans_type == ASYNC
HandleBinderAsync(time, pid, target_pid) ==
    LET ev == BinderEvent(nextId + 1, time, pid, target_pid, "ASYNC")
        tracked == pid \in app_pids \/ pid \in system_pids
    IN  /\ status = "ok"
        /\ nEvents < MaxEvents
        /\ nEvents' = nEvents + 1
        /\ clock' = time
        /\ completed_binder_calls' =
              IF tracked
              THEN Append(completed_binder_calls, CompletedBinderTransaction(ev, NoEvent))
              ELSE completed_binder_calls
        /\ nextId' = IF tracked THEN nextId + 1 ELSE nextId
        /\ UNCHANGED <<app_pids, system_pids, binder_pids, process_branches,
                       binder_branches, pending_binder_calls, graph, status>>
        /\ UNCHANGED metricVars

\* elif isinstance(event, EventBinderTransaction), trans_type == REPLY
HandleBinderReply(time, pid, target_pid) ==
    LET ev == BinderEvent(nextId + 1, time, pid, target_pid, "REPLY")
        tracked == pid \in system_pids \/ pid \in binder_pids
        scan == ReplyScan(Len(pending_binder_calls), pending_binder_calls, ev,
                          pending_binder_calls, completed_binder_calls)
        stored == tracked /\ scan.pend # pending_binder_calls
    IN  /\ status = "ok"
        /\ nEvents < MaxEvents
        /\ nEvents' = nEvents + 1
        /\ clock' = time
        /\ pending_binder_calls' = IF tracked THEN scan.pend ELSE pending_binder_calls
        /\ completed_binder_calls' = IF tracked THEN scan.comp ELSE completed_binder_calls
        /\ nextId' = IF stored THEN nextId + 1 ELSE nextId
        /\ UNCHANGED <<app_pids, system_pids, binder_pids, process_branches,
                       binder_branches, graph, status>>
        /\ UNCHANGED metricVars

(* --------------------- handle_event: scheduler switch ------------------ *)
SchedEvent(time, pid, next_pid) ==
    [kind |-> "sched", time |-> time, pid |-> pid, next_pid |-> next_pid]

\* PIDTool.get_pid_info(pid_no): a PID of one of the three partitions is
\* answered from the partition, any other by find_pid_info, whose answer
\* (found) comes from the device
get_pid_info(pid_no, found) ==
    IF pid_no \in app_pids \/ pid_no \in system_pids \/ pid_no \in binder_pids
    THEN TRUE
    ELSE found

\* the gate of both halves of the switch handler: next_pid is tracked
NextPidTracked(ev) == ev.next_pid \in system_pids \/ ev.next_pid \in app_pids

\* Task being switched out (first if of the switch handler)
SwitchOutGate(ev) == ev.pid # 0 /\ NextPidTracked(ev)

SwitchOut(ev) ==
    IF SwitchOutGate(ev) /\ ev.pid \in DOMAIN process_branches
    THEN [process_branches EXCEPT ![ev.pid] = SwitchOutTasks(@, ev.time)]
    ELSE process_branches

\* Task being switched in (second if of the switch handler)
SwitchInGate(ev) == ev.next_pid # 0 /\ NextPidTracked(ev)

\* reversed(list(enumerate(completed_binder_calls))): the index of the most
\* recent completed transaction whose target is next_pid, 0 if there is none
MatchIndex(comp, next_pid) ==
    LET hits == {x \in 1..Len(comp) : comp[x].target_pid = next_pid}
    IN  IF hits = {} THEN 0 ELSE CHOOSE x \in hits : \A y \in hits : y <= x

\* ResolveBinderThread that files a new branch under the calling PID for
\* every kind of transaction
ResolveBinderThread_CallerKey(node, found) ==
    LET key == IF node.transaction_type = "ASYNC"
               THEN node.caller_pid ELSE node.binder_thread
        info == IF node.transaction_type = "ASYNC"
                THEN get_pid_info(node.caller_pid, found) ELSE found
    IN  IF key \in DOMAIN binder_branches
        THEN [ok |-> TRUE, bb |-> binder_branches, bp |-> binder_pids]
        ELSE IF ~info
             THEN [ok |-> FALSE, bb |-> binder_branches, bp |-> binder_pids]
             ELSE [ok |-> TRUE,
                   bb |-> (node.caller_pid :> <<>>) @@ binder_branches,
                   bp |-> binder_pids \cup {node.binder_thread}]

\* the binder branch and binder PID a matched transaction needs; ok is FALSE
\* when the lookup returned nothing
ResolveBinderThread(node, found) ==
    LET key == IF node.transaction_type = "ASYNC"
               THEN node.caller_pid ELSE node.binder_thread
        info == IF node.transaction_type = "ASYNC"
                THEN get_pid_info(node.caller_pid, found) ELSE found
    IN  IF key \in DOMAIN binder_branches
        THEN [ok |-> TRUE, bb |-> binder_branches, bp |-> binder_pids]
        ELSE IF ~info
             THEN [ok |-> FALSE, bb |-> binder_branches, bp |-> binder_pids]
             ELSE [ok |-> TRUE,
                   bb |-> (key :> <<>>) @@ binder_branches,
                   bp |-> binder_pids \cup {node.binder_thread}]

\* If target thread is not yet known
ResolveTarget(pb, next_pid, found) ==
    IF next_pid \in DOMAIN pb
    THEN [ok |-> TRUE, pb |-> pb, ap |-> app_pids]
    ELSE IF ~found
         THEN [ok |-> FALSE, pb |-> pb, ap |-> app_pids]
         ELSE [ok |-> TRUE, pb |-> (next_pid :> <<>>) @@ pb,
               ap |-> app_pids \cup {next_pid}]

\* AddBinderTasks that records the send and leaves the receive out
AddBinderTasks_SendOnly(bb, node) ==
    [bb EXCEPT ![node.binder_thread] =
        Append(@, BinderTask("BINDER_SEND",
                             IF node.first_half # NoEvent
                             THEN node.first_half ELSE node.second_half))]

\* Add first half binder event ... Add second half binder event
AddBinderTasks(bb, node) ==
    [bb EXCEPT ![node.binder_thread] =
        Append(Append(@, BinderTask("BINDER_SEND",
                                    IF node.first_half # NoEvent
                                    THEN node.first_half ELSE node.second_half)),
               BinderTask("BINDER_RECV", node.second_half))]

\* StartTargetTask with the switch-in fed the transaction's second half
\* instead of the scheduler event
StartTargetTask_HalfEvent(pb, node, time) ==
    IF Len(pb[node.caller_pid]) = 0
    THEN pb
    ELSE [pb EXCEPT ![node.target_pid] =
            LET started == Append(@, NewTask(node.second_half.time))
            IN  [started EXCEPT ![Len(started)].dep_type = "BINDER"]]

\* the try block: edge from the calling task, switch-in of the target,
\* edge to the new task, dependency type; skipped as a whole when the
\* calling branch has no task (IndexError)
StartTargetTask(pb, node, time) ==
    IF Len(pb[node.caller_pid]) = 0
    THEN pb
    ELSE [pb EXCEPT ![node.target_pid] =
            LET started == SwitchInTasks(@, time)
            IN  [started EXCEPT ![Len(started)].dep_type = "BINDER"]]

\* CallerTaskIndex that takes tasks[-1] for a task signaling itself too
CallerTaskIndex_Last(pb, node) == Len(pb[node.caller_pid])

\* the index of the calling task that is linked: tasks[-2] for a task
\* signaling itself, tasks[-1] otherwise
CallerTaskIndex(pb, node) ==
    IF node.target_pid = node.caller_pid
    THEN Len(pb[node.caller_pid]) - 1
    ELSE Len(pb[node.caller_pid])

\* Create dependency from current task to calling task and back
LinkDependency(pb, node) ==
    LET t == node.target_pid
        c == node.caller_pid
        ci == CallerTaskIndex(pb, node)
        ti == Len(pb[t])
        pb1 == [pb EXCEPT ![t][ti].prev_task = TaskRef(c, ci)]
    IN  [pb1 EXCEPT ![c][ci].next_task = TaskRef(t, ti)]

\* the two add_edge calls of the try block
BinderEdges(pb, pbD, bb, node) ==
    IF Len(pb[node.caller_pid]) = 0
    THEN {}
    ELSE {<<TaskRef(node.caller_pid, Len(pb[node.caller_pid])),
            BinderRef(node.binder_thread, Len(bb[node.binder_thread]))>>,
          <<BinderRef(node.binder_thread, Len(bb[node.binder_thread])),
            TaskRef(node.target_pid, Len(pbD[node.target_pid]))>>}

\* DropTransaction that deletes the oldest entry of the queue
DropTransaction_Oldest(comp, x) == DelAt(comp, 1)

\* del self.completed_binder_calls[x] after a lookup that returned nothing
DropTransaction(comp, x) == DelAt(comp, x)

\* RemoveCompleted that leaves the queue as it is
RemoveCompleted_Keep(comp, x) == comp

\* remove binder task that is now complete
RemoveCompleted(comp, x) == DelAt(comp, x)

\* OrdinarySwitchIn that marks the task it starts as caused by a binder
\* transaction
OrdinarySwitchIn_Binder(pb, ev) ==
    IF ev.next_pid \in DOMAIN pb
    THEN [pb EXCEPT ![ev.next_pid] =
            LET started == SwitchInTasks(@, ev.time)
            IN  [started EXCEPT ![Len(started)].dep_type = "BINDER"]]
    ELSE pb

\* Not called from a Binder transaction (cyclic task)
OrdinarySwitchIn(pb, ev) ==
    IF ev.next_pid \in DOMAIN pb
    THEN [pb EXCEPT ![ev.next_pid] = SwitchInTasks(@, ev.time)]
    ELSE pb

\* what handling the switch-in leaves behind, given the branches after the
\* switch-out (pb), the matched index x and the answers of the two lookups
SwitchIn(pb, ev, x, found1, found2) ==
    LET node == completed_binder_calls[x]
        rb == ResolveBinderThread(node, found1)
        rt == ResolveTarget(pb, ev.next_pid, found2)
        bbT == AddBinderTasks(rb.bb, node)
        pbD == StartTargetTask(rt.pb, node, ev.time)
        edges == BinderEdges(rt.pb, pbD, bbT, node)
        base == [pb |-> pb, bb |-> binder_branches, bp |-> binder_pids,
                 ap |-> app_pids, comp |-> completed_binder_calls,
                 graph |-> graph, status |-> "ok"]
    IN  IF x = 0
        THEN [base EXCEPT !.pb = OrdinarySwitchIn(pb, ev)]
        ELSE IF ~rb.ok
        THEN \* del self.completed_binder_calls[x]; break
             [base EXCEPT !.comp = DropTransaction(completed_binder_calls, x),
                          !.pb = OrdinarySwitchIn(pb, ev)]
        ELSE IF ~rt.ok
        THEN [base EXCEPT !.comp = DropTransaction(completed_binder_calls, x),
                          !.bb = rb.bb, !.bp = rb.bp,
                          !.pb = OrdinarySwitchIn(pb, ev)]
        ELSE IF node.target_pid = node.caller_pid
        THEN [base EXCEPT !.bb = bbT, !.bp = rb.bp, !.ap = rt.ap,
                          !.graph = graph \cup edges,
                          !.comp = RemoveCompleted(completed_binder_calls, x),
                          !.pb = IF Len(pbD[node.caller_pid]) >= 2
                                 THEN LinkDependency(pbD, node)
                                 ELSE pbD]
        ELSE IF Len(pbD[node.caller_pid]) = 0
        THEN \* tasks[-1] of an empty calling branch outside of any try
             [base EXCEPT !.bb = bbT, !.bp = rb.bp, !.ap = rt.ap,
                          !.pb = pbD, !.status = "raised"]
        ELSE [base EXCEPT !.bb = bbT, !.bp = rb.bp, !.ap = rt.ap,
                          !.graph = graph \cup edges,
                          !.comp = RemoveCompleted(completed_binder_calls, x),
                          !.pb = LinkDependency(pbD, node)]

\* if isinstance(event, EventSchedSwitch)
HandleSchedSwitch(time, pid, next_pid, found1, found2) ==
    LET ev == SchedEvent(time, pid, next_pid)
        pbOut == SwitchOut(ev)
        x == IF SwitchInGate(ev)
             THEN MatchIndex(completed_binder_calls, next_pid) ELSE 0
        r == SwitchIn(pbOut, ev, x, found1, found2)
    IN  /\ status = "ok"
        /\ nEvents < MaxEvents
        /\ nEvents' = nEvents + 1
        /\ clock' = time
        /\ IF SwitchInGate(ev)
           THEN /\ process_branches' = r.pb
                /\ binder_branches' = r.bb
                /\ binder_pids' = r.bp
                /\ app_pids' = r.ap
                /\ completed_binder_calls' = r.comp
                /\ graph' = r.graph
                /\ status' = r.status
           ELSE /\ process_branches' = pbOut
                /\ UNCHANGED <<binder_branches, binder_pids, app_pids,
                               completed_binder_calls, graph, status>>
        /\ UNCHANGED <<system_pids, pending_binder_calls, nextId>>
        /\ UNCHANGED metricVars

(* ------------------- handle_event: frequency change -------------------- *)
\* range(event.target_cpu, event.target_cpu + 4)
FreqChangeRange(target_cpu) == target_cpu..(target_cpu + ClusterSize - 1)

\* elif isinstance(event, EventFreqChange): the loop body runs for each index
\* of the range in turn; an index past the last core raises IndexError on
\* the first list assignment, after the cores before it were updated
HandleFreqChange(time, target_cpu, freq, util) ==
    LET touched == FreqChangeRange(target_cpu) \cap Cores
    IN  /\ status = "ok"
        /\ nEvents < MaxEvents
        /\ nEvents' = nEvents + 1
        /\ clock' = time
        /\ current_core_freqs' =
              [c \in Cores |-> IF c \in touched THEN freq ELSE current_core_freqs[c]]
        /\ current_core_utils' =
              [c \in Cores |-> IF c \in touched THEN util ELSE current_core_utils[c]]
        /\ cpus' = [c \in Cores |-> IF c \in touched
                                      THEN Append(cpus[c], freq) ELSE cpus[c]]
        /\ status' = IF FreqChangeRange(target_cpu) \subseteq Cores
                     THEN "ok" ELSE "raised"
        /\ UNCHANGED treeVars
        /\ UNCHANGED reportVars
        /\ UNCHANGED <<current_gpu, cpu_table, gpu_table>>

(* ------------------------ CPUUtilizationTable -------------------------- *)
\* a utilization as the quotient it was computed from (num / den * 100)
Util(num, den) == [num |-> num, den |-> den]
ZeroUtil == Util(0, 1)

\* CPUUtilizationSlice.__init__
CPUUtilizationSlice(start_time, finish_time, freq, state, util) ==
    [start_time |-> start_time, duration |-> (finish_time - 1) - start_time,
     state |-> state, freq |-> freq, util |-> util]

\* the trailing window of calc_util_last_event
UtilWindow == 25000

\* for event in reversed(self.events): the durations summed from event i
\* back, until the window is covered or the first event is reached
RECURSIVE CalcWindow(_, _, _, _)
CalcWindow(events, i, calc_duration, active_duration) ==
    LET calc == calc_duration + events[i].duration
        active == IF Truthy(events[i].state)
                  THEN active_duration + events[i].duration
                  ELSE active_duration
    IN  IF calc >= UtilWindow \/ i = 1
        THEN [calc_duration |-> calc, active_duration |-> active]
        ELSE CalcWindow(events, i - 1, calc, active)

calc_util_last_event_Idle(events) ==
    LET w == CalcWindow(events, Len(events), 0, 0)
    IN  IF w.calc_duration = 0
        THEN [ok |-> FALSE, events |-> events]
        ELSE [ok |-> TRUE,
              events |-> [events EXCEPT ![Len(events)].util =
                             Util(w.calc_duration - w.active_duration,
                                  w.calc_duration)]]
\* calc_util_last_event: ok is FALSE when the division raises
\* ZeroDivisionError
calc_util_last_event(events) ==
    LET w == CalcWindow(events, Len(events), 0, 0)
    IN  IF w.calc_duration = 0
        THEN [ok |-> FALSE, events |-> events]
        ELSE [ok |-> TRUE,
              events |-> [events EXCEPT ![Len(events)].util =
                             Util(w.active_duration, w.calc_duration)]]

\* the core state an idle event leaves, for the first event of a core and
\* for the events after it
FirstCoreState(state) ==
    IF state = IdleExit THEN PyIsNotIdle ELSE PyBool(state = 0)
NextCoreState(core_state, state) ==
    IF state = IdleExit THEN PyBool(~Truthy(core_state)) ELSE PyInt(state)

\* CPUUtilizationTable.add_idle_event
add_idle_event(tbl, time, state, freq) ==
    IF tbl.start_time = 0
    THEN [ok |-> TRUE,
          tbl |-> [tbl EXCEPT !.start_time = time,
                              !.core_state = FirstCoreState(state)]]
    ELSE LET slice == CPUUtilizationSlice(tbl.last_event_time,
                                          time - tbl.start_time, freq,
                                          tbl.core_state, ZeroUtil)
             calc == calc_util_last_event(Append(tbl.events, slice))
             tbl1 == [tbl EXCEPT !.events = calc.events,
                                 !.last_event_time = time - tbl.start_time]
         IN  IF calc.ok
             THEN [ok |-> TRUE,
                   tbl |-> [tbl1 EXCEPT !.core_state =
                                NextCoreState(tbl.core_state, state)]]
             ELSE [ok |-> FALSE, tbl |-> tbl1]

\* ProcessTree.handle_idle_event, for the events of core 0
HandleIdleEvent(time, state) ==
    LET r == add_idle_event(cpu_table, time, state, current_core_freqs[0])
    IN  /\ status = "ok"
        /\ ~cpu_table.compiled
        /\ nEvents < MaxEvents
        /\ nEvents' = nEvents + 1
        /\ clock' = time
        /\ cpu_table' = r.tbl
        /\ status' = IF r.ok THEN "ok" ELSE "raised"
        /\ UNCHANGED treeVars
        /\ UNCHANGED reportVars
        /\ UNCHANGED <<current_core_freqs, current_core_utils, cpus,
                       current_gpu, gpu_table>>

\* round(event.util, 2), in hundredths of a percent: num / den * 100 rounded
\* to two decimals, halves away from zero
Round2(util) ==
    LET n == IF util.den < 0 THEN -(util.num * 10000) ELSE util.num * 10000
        d == IF util.den < 0 THEN -util.den ELSE util.den
    IN  IF n >= 0 THEN (2 * n + d) \div (2 * d)
                  ELSE -((2 * (-n) + d) \div (2 * d))

\* the end time compile_table finds for the cores (here the one core)
TableEndTime(tbl) ==
    IF tbl.events # <<>>
       /\ tbl.start_time + Last(tbl.events).start_time + Last(tbl.events).duration > 0
    THEN tbl.start_time + Last(tbl.events).start_time + Last(tbl.events).duration
    ELSE 0

\* the loop of compile_lookup from event i on: cell x + event.start_time of
\* the list is cell x + event.start_time + 1 of the sequence; ok is FALSE
\* when an index is past the end of the list (IndexError)
RECURSIVE FillLookup(_, _, _)
FillLookup(events, i, utils) ==
    IF i > Len(events) THEN [ok |-> TRUE, utils |-> utils]
    ELSE LET e == events[i]
             cells == {x + e.start_time : x \in 0..e.duration}
             filled == [k \in 1..Len(utils) |->
                           IF (k - 1) \in cells THEN Round2(e.util) ELSE utils[k]]
         IN  IF \E c \in cells : c >= Len(utils)
             THEN [ok |-> FALSE,
                   utils |-> [k \in 1..Len(utils) |->
                                 IF (k - 1) \in cells
                                    /\ \A c \in cells : c >= Len(utils) => k - 1 < c
                                 THEN Round2(e.util) ELSE utils[k]]]
             ELSE FillLookup(events, i + 1, filled)

compile_lookup_Short(tbl, start_time, end_time) ==
    LET lookup_length == end_time - start_time
        zeros == [k \in 1..(IF lookup_length > 0 THEN lookup_length ELSE 0) |-> 0]
        r == FillLookup(tbl.events, 1, zeros)
    IN  [ok |-> r.ok, tbl |-> [tbl EXCEPT !.utils = r.utils, !.compiled = TRUE]]
\* CPUUtilizationTable.compile_lookup
compile_lookup(tbl, start_time, end_time) ==
    LET lookup_length == end_time - start_time + 1
        zeros == [k \in 1..(IF lookup_length > 0 THEN lookup_length ELSE 0) |-> 0]
        r == FillLookup(tbl.events, 1, zeros)
    IN  [ok |-> r.ok, tbl |-> [tbl EXCEPT !.utils = r.utils, !.compiled = TRUE]]

\* TotalUtilizationTable.compile_table, for the one core
CompileTable ==
    LET r == compile_lookup(cpu_table, cpu_table.start_time, TableEndTime(cpu_table))
    IN  /\ status = "ok"
        /\ ~cpu_table.compiled
        /\ cpu_table' = r.tbl
        /\ status' = IF r.ok THEN "ok" ELSE "raised"
        /\ UNCHANGED treeVars
        /\ UNCHANGED reportVars
        /\ UNCHANGED <<clock, nEvents, current_core_freqs, current_core_utils,
                       cpus, current_gpu, gpu_table>>

\* ProcessTree.handle_idle_event, for the events of core 1
HandleIdleEvent1(time, state) ==
    LET r == add_idle_event(cpu_table1, time, state, current_core_freqs[1])
    IN  /\ status = "ok"
        /\ ~cpu_table1.compiled
        /\ nEvents < MaxEvents
        /\ nEvents' = nEvents + 1
        /\ clock' = time
        /\ cpu_table1' = r.tbl
        /\ status' = IF r.ok THEN "ok" ELSE "raised"
        /\ UNCHANGED treeVars
        /\ UNCHANGED <<current_core_freqs, current_core_utils, cpus,
                       current_gpu, cpu_table, gpu_table, sys_temps,
                       evaluation, energy_timeline, logger>>

\* compile_table: the offset up to which a core's intervals reach
CoreEndTime(start_time, tbl, end_time) ==
    IF tbl.events # <<>>
       /\ start_time + Last(tbl.events).start_time + Last(tbl.events).duration
             > end_time
    THEN start_time + Last(tbl.events).start_time + Last(tbl.events).duration
    ELSE end_time

\* TotalUtilizationTable.compile_table, for cores 0 and 1: the start is the
\* least start time of the cores, the end the farthest end found, and every
\* core's lookup is compiled for that range, in the order of the cores
CompileTables ==
    LET start_time == IF cpu_table.start_time <= cpu_table1.start_time
                      THEN cpu_table.start_time ELSE cpu_table1.start_time
        end_time == CoreEndTime(start_time, cpu_table1,
                                CoreEndTime(start_time, cpu_table, 0))
        r0 == compile_lookup(cpu_table, start_time, end_time)
        r1 == compile_lookup(cpu_table1, start_time, end_time)
    IN  /\ status = "ok"
        /\ ~cpu_table.compiled
        /\ ~cpu_table1.compiled
        /\ cpu_table' = r0.tbl
        /\ cpu_table1' = IF r0.ok THEN r1.tbl ELSE cpu_table1
        /\ status' = IF r0.ok /\ r1.ok THEN "ok" ELSE "raised"
        /\ UNCHANGED treeVars
        /\ UNCHANGED <<clock, nEvents, current_core_freqs, current_core_utils,
                       cpus, current_gpu, gpu_table, sys_temps, evaluation,
                       energy_timeline, logger>>

\* CPUUtilizationTable.get_util: a negative list index counts from the end
\* of the list, an index outside the list raises IndexError and gives 0.0
get_util(tbl, ts) ==
    LET event_time == ts - tbl.start_time - 1
        n == Len(tbl.utils)
    IN  IF event_time >= 0 /\ event_time < n THEN tbl.utils[event_time + 1]
        ELSE IF event_time < 0 /\ event_time >= -n THEN tbl.utils[n + event_time + 1]
        ELSE 0

(* ------------------------ GPUUtilizationTable -------------------------- *)
\* GPUUtilizationTable.init
GpuInit(start_time, finish_time, util) ==
    /\ status = "ok"
    /\ gpu_table.events = <<>>
    /\ gpu_table.start_time = 0
    /\ gpu_table' = [gpu_table EXCEPT !.start_time = start_time,
                                      !.finish_time = finish_time,
                                      !.current_util = util]
    /\ UNCHANGED treeVars
    /\ UNCHANGED reportVars
    /\ UNCHANGED <<clock, nEvents, status, current_core_freqs,
                   current_core_utils, cpus, current_gpu, cpu_table>>

\* GPUUtilizationTable.add_event: the interval that ends with this event
\* carries the event's frequency and the utilization current before it
gpu_add_event(tbl, time, freq, util) ==
    [tbl EXCEPT
        !.events = Append(@, CPUUtilizationSlice(tbl.last_event_time,
                                                 time - tbl.start_time,
                                                 freq, 0, tbl.current_util)),
        !.current_util = util,
        !.last_event_time = time - tbl.start_time]

\* handle_event, EventMaliUtil
HandleMaliUtil(time, freq, util) ==
    /\ status = "ok"
    /\ nEvents < MaxEvents
    /\ nEvents' = nEvents + 1
    /\ clock' = time
    /\ current_gpu' = [freq |-> freq, util |-> util]
    /\ gpu_table' = gpu_add_event(gpu_table, time, freq, util)
    /\ UNCHANGED treeVars
    /\ UNCHANGED reportVars
    /\ UNCHANGED <<status, current_core_freqs, current_core_utils, cpus,
                   cpu_table>>

\* get_energy: relative_start_time and relative_finish_time
RelativeStart(tbl, start_time) ==
    IF start_time = 0 THEN 0
    ELSE IF start_time - tbl.start_time < 0 THEN 0
    ELSE start_time - tbl.start_time

RelativeFinish(tbl, finish_time) == finish_time - tbl.start_time

\* get_energy: the branch of the if/elif chain an interval takes
EnergyCase(event, rs, rf) ==
    IF rs >= event.start_time /\ rs < event.start_time + event.duration
    THEN "start"
    ELSE IF rf >= event.start_time /\ rf < event.start_time + event.duration
    THEN "end"
    ELSE IF rs < event.start_time /\ rf > event.start_time + event.duration
    THEN "middle"
    ELSE IF event.start_time >= rf
    THEN "finished"
    ELSE "none"

\* get_energy: the duration that enters cycles
\* (cycles = duration * 0.000000001 * event.freq)
CountedDuration(event, rs, rf) ==
    LET k == EnergyCase(event, rs, rf)
    IN  IF k = "start" THEN event.duration - (rs - event.start_time)
        ELSE IF k = "end" THEN event.duration - (rf - event.start_time)
        ELSE IF k = "middle" THEN event.duration
        ELSE 0

\* get_energy: the loop over the intervals from interval i on; the result is
\* the duration counted for each interval, and ok is FALSE when the division
\* by event.freq raises ZeroDivisionError or an assert on cycles fails.
\* "return energy" leaves the remaining intervals at zero. The temperature
\* and the cycle energy are taken to be nonzero.
RECURSIVE EnergyLoop(_, _, _, _)
EnergyLoop(events, i, rs, rf) ==
    IF i > Len(events) THEN [ok |-> TRUE, counted |-> <<>>]
    ELSE
        LET k == EnergyCase(events[i], rs, rf)
            d == CountedDuration(events[i], rs, rf)
            zeros == [j \in 1..(Len(events) - i + 1) |-> 0]
        IN  IF events[i].freq = 0 THEN [ok |-> FALSE, counted |-> zeros]
            ELSE IF k = "finished" THEN [ok |-> TRUE, counted |-> zeros]
            ELSE IF k \in {"start", "end", "middle"} /\ d = 0
            THEN [ok |-> FALSE, counted |-> zeros]
            ELSE LET rest == EnergyLoop(events, i + 1, rs, rf)
                 IN  [ok |-> rest.ok, counted |-> <<d>> \o rest.counted]

\* GPUUtilizationTable.get_energy. With finish_time 0 the code reads
\* self.events[-1].time, which no interval has, and raises.
get_energy(tbl, start_time, finish_time) ==
    IF finish_time = 0
    THEN [ok |-> FALSE, counted |-> [j \in 1..Len(tbl.events) |-> 0]]
    ELSE EnergyLoop(tbl.events, 1, RelativeStart(tbl, start_time),
                    RelativeFinish(tbl, finish_time))

(* --------------------------- temperatures ------------------------------ *)
\* TempLogEntry.__init__
TempLogEntry(ts, big0, big1, big2, big3, little, gpu) ==
    [time |-> ts, big |-> <<big0, big1, big2, big3>>, little |-> little,
     gpu |-> gpu]

\* the temperature of a channel of an entry: core -1 is the GPU, a core up to
\* 3 reads the little cluster, any other core reads big[core % 4]
TempOfCore(entry, core) ==
    IF core = -1 THEN entry.gpu
    ELSE IF core <= 3 THEN entry.little
    ELSE entry.big[(core % 4) + 1]

\* compile_temps_table: entry i repeated once for every time from its own
\* time up to the time of entry i + 1 (range() is empty when that is not later)
RECURSIVE ExpandTemps(_, _)
ExpandTemps(unprocessed, i) ==
    IF i >= Len(unprocessed) THEN <<>>
    ELSE LET n == unprocessed[i + 1].time - unprocessed[i].time
         IN  [k \in 1..(IF n > 0 THEN n ELSE 0) |-> unprocessed[i]]
             \o ExpandTemps(unprocessed, i + 1)

\* SystemMetrics.compile_temps_table; unprocessed_temps[0] of an empty list
\* raises IndexError
compile_temps_table(st) ==
    IF st.unprocessed = <<>> THEN [ok |-> FALSE, st |-> st]
    ELSE [ok |-> TRUE,
          st |-> [st EXCEPT
                    !.initial_time = st.unprocessed[1].time,
                    !.end_time = Last(st.unprocessed).time,
                    !.temps = st.temps \o ExpandTemps(st.unprocessed, 1)
                                       \o <<Last(st.unprocessed)>>,
                    !.compiled = TRUE]]

CompileTemps ==
    LET r == compile_temps_table(sys_temps)
    IN  /\ status = "ok"
        /\ ~sys_temps.compiled
        /\ sys_temps' = r.st
        /\ status' = IF r.ok THEN "ok" ELSE "raised"
        /\ UNCHANGED treeVars
        /\ UNCHANGED <<clock, nEvents, current_core_freqs, current_core_utils,
                       cpus, current_gpu, cpu_table, cpu_table1, gpu_table,
                       evaluation, energy_timeline, logger>>

\* temps[k] as Python indexes a list: a negative k counts from the end, a k
\* outside the list raises IndexError
TempAt(temps, k) ==
    LET n == Len(temps)
    IN  IF k >= 0 /\ k < n THEN [ok |-> TRUE, entry |-> temps[k + 1]]
        ELSE IF k < 0 /\ k >= -n THEN [ok |-> TRUE, entry |-> temps[n + k + 1]]
        ELSE [ok |-> FALSE]

get_temp_Shifted(st, ts, core) ==
    IF st.temps = <<>> THEN [ok |-> FALSE, temp |-> 0]
    ELSE IF ts <= st.temps[1].time
    THEN [ok |-> TRUE, temp |-> TempOfCore(st.temps[1], core)]
    ELSE IF ts >= Last(st.temps).time
    THEN [ok |-> TRUE, temp |-> TempOfCore(Last(st.temps), core)]
    ELSE LET e == TempAt(st.temps, ts - st.initial_time - 1)
         IN  IF e.ok THEN [ok |-> TRUE, temp |-> TempOfCore(e.entry, core)]
             ELSE [ok |-> FALSE, temp |-> 0]
\* SystemMetrics.get_temp; ok is FALSE when IndexError ends the run
get_temp(st, ts, core) ==
    IF st.temps = <<>> THEN [ok |-> FALSE, temp |-> 0]
    ELSE IF ts <= st.temps[1].time
    THEN [ok |-> TRUE, temp |-> TempOfCore(st.temps[1], core)]
    ELSE IF ts >= Last(st.temps).time
    THEN [ok |-> TRUE, temp |-> TempOfCore(Last(st.temps), core)]
    ELSE LET e == TempAt(st.temps, ts - st.initial_time)
         IN  IF e.ok THEN [ok |-> TRUE, temp |-> TempOfCore(e.entry, core)]
             ELSE [ok |-> FALSE, temp |-> 0]

(* ------------------- finish_tree: optimal evaluation ------------------- *)
\* energy_profile.little_freqs, big_freqs and migration_factor
LittleFreqs == <<2, 4>>
BigFreqs == <<4, 8>>
MigrationFactor == 2

\* sys_util_history.cpu[0].uw.window_duration
WindowDuration == UtilWindow

\* round(n / d) for d > 0: halves go away from zero
RoundDiv(n, d) ==
    IF n >= 0 THEN (2 * n + d) \div (2 * d)
              ELSE -((2 * (-n) + d) \div (2 * d))

\* np.argmin over a list of cores: the first core with the least utilization
\* (as a position of the list, counted from 0)
ArgMin(utils) ==
    CHOOSE i \in 0..(Len(utils) - 1) :
        /\ \A j \in 0..(Len(utils) - 1) : utils[i + 1] <= utils[j + 1]
        /\ \A j \in 0..(i - 1) : utils[j + 1] > utils[i + 1]

\* lf.index(cur_cpu_freq), counted from 0
FreqIndex(freqs, freq) == (CHOOSE i \in 1..Len(freqs) : freqs[i] = freq) - 1

\* the tags add_optim_type records, with the new frequency written to the row
Tag(type, freq) == [type |-> type, freq |-> freq]

\* core * scaling_factor <= 100.0 for all cores, scaling_factor = cur / freq
FitsAt(utils, cur_freq, freq) ==
    \A i \in 1..Len(utils) : utils[i] * cur_freq <= 100 * freq

\* cycles_on_little = round(task_cycles * mf)
CyclesOnLittle(task) == task.cpu_cycles * MigrationFactor

\* available_cycles_on_little_at_new_freq =
\* round((1.0 - core_utils_new_freq[little_core_index] / 100) * little_freq)
AvailableCycles(little_cores, cur_freq, little_freq) ==
    RoundDiv(100 * little_freq - little_cores[ArgMin(little_cores) + 1] * cur_freq,
             100)

\* finish_time_on_little = int(round(task.start_time + cycles_on_little /
\* available_cycles_on_little_at_new_freq * 1000000))
FinishTimeOnLittle(task, available) ==
    RoundDiv(task.start_time * available + CyclesOnLittle(task) * 1000000,
             available)

\* new_util_on_target_core stays at or below 100:
\* core_utils_new_freq[little_core_index] + cycles_on_little / little_freq * 100
NewUtilOnTargetFits(task, little_cores, cur_freq, little_freq) ==
    little_cores[ArgMin(little_cores) + 1] * cur_freq
       + 100 * CyclesOnLittle(task) <= 100 * little_freq

\* B2LTags that records the frequency change without the reallocation
B2LTags_NoRealloc(task, little_freq) ==
    IF little_freq # task.cpu_freq[1]
    THEN <<Tag("DVFS_AFTER_REALLOC", little_freq)>>
    ELSE <<>>

\* the tags of a task that meets its successor's start at little_freq:
\* B2L_REALLOC, and DVFS_AFTER_REALLOC when little_freq is not the little
\* cluster's current frequency
B2LTags(task, little_freq) ==
    <<Tag("B2L_REALLOC", little_freq)>>
       \o (IF little_freq # task.cpu_freq[1]
           THEN <<Tag("DVFS_AFTER_REALLOC", little_freq)>>
           ELSE <<>>)

\* "Reallocate to small core": for little_freq in lf, from entry k of the
\* table on. raised is TRUE when the division by the available cycles raises
\* ZeroDivisionError; a task without a dependency goes on to the next
\* frequency (continue); the first tag ends the scan (break).
RECURSIVE B2LScan_NoBreak(_, _, _)
B2LScan_NoBreak(task, little_cores, k) ==
    IF k > Len(LittleFreqs) THEN [raised |-> FALSE, tags |-> <<>>]
    ELSE
        LET little_freq == LittleFreqs[k]
            cur == task.cpu_freq[1]
            available == AvailableCycles(little_cores, cur, little_freq)
            rest == B2LScan_NoBreak(task, little_cores, k + 1)
        IN  IF ~FitsAt(little_cores, cur, little_freq) THEN rest
            ELSE IF available = 0 THEN [raised |-> TRUE, tags |-> <<>>]
            ELSE IF ~task.dependency.present THEN rest
            ELSE IF FinishTimeOnLittle(task, available) < task.dependency.start_time
            THEN [raised |-> rest.raised,
                  tags |-> <<Tag("B2L_REALLOC", little_freq)>>
                           \o (IF little_freq # cur
                               THEN <<Tag("DVFS_AFTER_REALLOC", little_freq)>>
                               ELSE <<>>)
                           \o rest.tags]
            ELSE rest
RECURSIVE B2LScan(_, _, _)
B2LScan(task, little_cores, k) ==
    IF k > Len(LittleFreqs) THEN [raised |-> FALSE, tags |-> <<>>]
    ELSE
        LET little_freq == LittleFreqs[k]
            cur == task.cpu_freq[1]
            available == AvailableCycles(little_cores, cur, little_freq)
        IN  IF ~FitsAt(little_cores, cur, little_freq)
            THEN B2LScan(task, little_cores, k + 1)
            ELSE IF available = 0 THEN [raised |-> TRUE, tags |-> <<>>]
            ELSE IF ~task.dependency.present
            THEN B2LScan(task, little_cores, k + 1)
            ELSE IF FinishTimeOnLittle(task, available) < task.dependency.start_time
            THEN [raised |-> FALSE, tags |-> B2LTags(task, little_freq)]
            ELSE B2LScan(task, little_cores, k + 1)

\* the utilizations of the cluster of a core
ClusterUtils(core_utils, cpu) ==
    IF cpu <= 3 THEN SubSeq(core_utils, 1, 4) ELSE SubSeq(core_utils, 5, 8)

\* "Current core not running at minimum DVFS"
NotAtMinimum(task) ==
    \/ task.cpu <= 3 /\ task.cpu_freq[1] # LittleFreqs[1]
    \/ task.cpu >= 4 /\ task.cpu_freq[2] # BigFreqs[1]

\* cur_cpu_freq, freqs and lowest_util_core_index of the same-cluster check
CurCpuFreq(task) == IF task.cpu <= 3 THEN task.cpu_freq[1] ELSE task.cpu_freq[2]
LowerFreqs(task) ==
    IF task.cpu <= 3
    THEN SubSeq(LittleFreqs, 1, FreqIndex(LittleFreqs, CurCpuFreq(task)))
    ELSE SubSeq(BigFreqs, 1, FreqIndex(BigFreqs, CurCpuFreq(task)))
LowestUtilCore(task, core_utils) ==
    IF task.cpu <= 3 THEN ArgMin(SubSeq(core_utils, 1, 4))
    ELSE ArgMin(SubSeq(core_utils, 5, 8)) + 4

\* task_load = float(task.duration) / window_duration * 100
TaskLoad(task) == (task.duration * 100) \div WindowDuration

\* "Might be a better core in cluster": the working utilizations and the tag
\* when the task's load is moved. raised is TRUE when reading the window of
\* cpu[0] raises AttributeError.
SameClusterRealloc(task, core_utils) ==
    LET lowest == LowestUtilCore(task, core_utils)
        target_core_util == core_utils[lowest + 1]
        cur_core_util_wo_task == core_utils[task.cpu + 1] - TaskLoad(task)
    IN  IF lowest = task.cpu
        THEN [raised |-> FALSE, tags |-> <<>>, core_utils |-> core_utils]
        ELSE IF ~task.window
        THEN [raised |-> TRUE, tags |-> <<>>, core_utils |-> core_utils]
        ELSE IF cur_core_util_wo_task > target_core_util
        THEN [raised |-> FALSE,
              tags |-> <<Tag("SAME_CLUSTER_REALLOC", 0)>>,
              core_utils |-> [core_utils EXCEPT
                                ![task.cpu + 1] = @ - TaskLoad(task),
                                ![lowest + 1] = @ + TaskLoad(task)]]
        ELSE [raised |-> FALSE, tags |-> <<>>, core_utils |-> core_utils]

\* for freq in freqs: the first frequency that fits is tagged (break)
RECURSIVE DvfsScan(_, _, _, _)
DvfsScan(task, cluster_utils, freqs, k) ==
    IF k > Len(freqs) THEN <<>>
    ELSE IF FitsAt(cluster_utils, CurCpuFreq(task), freqs[k])
    THEN <<Tag("DVFS", freqs[k])>>
    ELSE DvfsScan(task, cluster_utils, freqs, k + 1)

\* the body of "for task in branch.tasks" for one task
EvaluateTask(task, core_utils) ==
    LET b2l == IF task.cpu > 3
               THEN B2LScan(task, SubSeq(core_utils, 1, 4), 1)
               ELSE [raised |-> FALSE, tags |-> <<>>]
        realloc == SameClusterRealloc(task, core_utils)
        dvfs == DvfsScan(task, ClusterUtils(realloc.core_utils, task.cpu),
                         LowerFreqs(task), 1)
        none == [evaluated |-> TRUE, task |-> task, measured |-> core_utils,
                 skipped |-> FALSE, raised |-> FALSE, same_cluster |-> FALSE,
                 tags |-> <<>>, core_utils |-> core_utils]
    IN  IF task.cpu_cycles = 0 THEN [none EXCEPT !.skipped = TRUE]
        ELSE IF b2l.raised THEN [none EXCEPT !.raised = TRUE]
        ELSE IF ~NotAtMinimum(task) THEN [none EXCEPT !.tags = b2l.tags]
        ELSE IF realloc.raised
        THEN [none EXCEPT !.tags = b2l.tags, !.raised = TRUE,
                          !.same_cluster = TRUE]
        ELSE [none EXCEPT !.tags = b2l.tags \o realloc.tags \o dvfs,
                          !.same_cluster = TRUE,
                          !.core_utils = realloc.core_utils]

\* finish_tree evaluates the task it was given
Evaluate ==
    /\ status = "ok"
    /\ ~evaluation.evaluated
    /\ evaluation' = EvaluateTask(evaluation.task, evaluation.core_utils)
    /\ status' = IF evaluation'.raised THEN "raised" ELSE "ok"
    /\ UNCHANGED treeVars
    /\ UNCHANGED <<clock, nEvents, current_core_freqs, current_core_utils,
                   cpus, current_gpu, cpu_table, cpu_table1, gpu_table,
                   sys_temps, energy_timeline, logger>>

\* the tasks finish_tree evaluates and the utilizations get_util gives for
\* the cores at the task's finish time (cores 2 and 3 as core 1, cores 6 and
\* 7 as core 5)
TaskCpuCycles == {0, 1, 2}
TaskCpus == {0, 4}
TaskStartTimes == {0}
TaskDurations == {5000, 12500}
DependerStartTimes == {1, 3000000}
CoreUtilValues == {0, 50, 100}

NoDependency == [present |-> FALSE, start_time |-> 0]
Dependencies ==
    {NoDependency} \cup {[present |-> TRUE, start_time |-> t] : t \in DependerStartTimes}

Tasks ==
    [cpu_cycles : TaskCpuCycles, cpu : TaskCpus,
     cpu_freq : {<<l, b>> : l \in {LittleFreqs[i] : i \in 1..Len(LittleFreqs)},
                            b \in {BigFreqs[i] : i \in 1..Len(BigFreqs)}},
     start_time : TaskStartTimes, duration : TaskDurations,
     dependency : Dependencies, window : BOOLEAN]

CoreUtils ==
    {<<u0, u1, u1, u1, u4, u5, u5, u5>> :
        u0 \in CoreUtilValues, u1 \in CoreUtilValues,
        u4 \in CoreUtilValues, u5 \in CoreUtilValues}

\* the ways the evaluation of a branch's tasks can end: TRUE when it raises
EvaluationOutcomes ==
    {EvaluateTask(task, core_utils).raised :
        task \in Tasks, core_utils \in CoreUtils}

\* finish_tree, the loop over list(self.process_branches.keys()): a branch
\* without tasks is deleted, a branch with tasks is evaluated. visited are
\* the branches the loop handled in full, in the order the dict gave them;
\* raising is the branch whose evaluation raised and ended the loop, or NoPid
\* when the loop came to its end.
NoPid == -1
FinishTree(visited, raising) ==
    /\ status = "ok"
    /\ visited \subseteq DOMAIN process_branches
    /\ \/ /\ raising = NoPid
          /\ visited = DOMAIN process_branches
          /\ \A p \in visited :
                process_branches[p] # <<>> => FALSE \in EvaluationOutcomes
       \/ /\ raising \in DOMAIN process_branches \ visited
          /\ process_branches[raising] # <<>>
          /\ TRUE \in EvaluationOutcomes
    /\ process_branches' =
          [p \in {q \in DOMAIN process_branches :
                     ~(q \in visited /\ process_branches[q] = <<>>)}
              |-> process_branches[p]]
    /\ status' = IF raising = NoPid THEN "finished" ELSE "raised"
    /\ UNCHANGED <<app_pids, system_pids, binder_pids, binder_branches,
                   pending_binder_calls, completed_binder_calls, graph,
                   nextId, clock, nEvents>>
    /\ UNCHANGED metricVars

(* --------------------- finish_tree: energy timeline -------------------- *)
\* timeline_interval, 0.05 s, as a number of time units of the trace; the
\* temperature samples of the model lie a few units apart, and so does the
\* interval
TimelineStep == 2

\* timeline_intervals = int(round(duration / timeline_interval)) + 1
TimelineIntervals(start_time, finish_time) ==
    RoundDiv(finish_time - start_time, TimelineStep) + 1

\* the timestamp the timeline gives to get_temp for interval i
TimelineTs(i) == i * TimelineStep

\* SystemMetrics.get_temp as the timeline calls it: timeline_interval is a
\* float and so is the timestamp. The comparisons with the first and the last
\* sample's time work as for an integer; temps[ts - initial_time] with a
\* float index raises TypeError, which the handler of IndexError lets pass
get_temp_float(st, ts, core) ==
    IF st.temps = <<>> THEN [ok |-> FALSE, temp |-> 0]
    ELSE IF ts <= st.temps[1].time
    THEN [ok |-> TRUE, temp |-> TempOfCore(st.temps[1], core)]
    ELSE IF ts >= Last(st.temps).time
    THEN [ok |-> TRUE, temp |-> TempOfCore(Last(st.temps), core)]
    ELSE [ok |-> FALSE, temp |-> 0]

\* one pass of the loop over energy_timeline: the temperatures of the little
\* cluster (core 0), the big cluster (core 4) and the GPU (core -1), stored
\* as (temp_b, temp_l, temp_g)
TimelineRow(st, i) ==
    LET temp_l == get_temp_float(st, TimelineTs(i), 0)
        temp_b == get_temp_float(st, TimelineTs(i), 4)
        temp_g == get_temp_float(st, TimelineTs(i), -1)
    IN  [ok |-> temp_l.ok /\ temp_b.ok /\ temp_g.ok,
         temps |-> <<temp_b.temp, temp_l.temp, temp_g.temp>>]

\* the loop over energy_timeline: the rows written before the first pass
\* that raises. Every pass first calls gpu.get_interval_energy; gpu_api says
\* whether the GPU table has that method (GPUUtilizationTable has not)
TimelineRows(st, n, gpu_api) ==
    LET all == [i \in 1..n |-> TimelineRow(st, i - 1)]
        bad == {i \in 1..n : ~all[i].ok}
        k == IF ~gpu_api THEN 0
             ELSE IF bad = {} THEN n
             ELSE (CHOOSE i \in bad : \A j \in bad : i <= j) - 1
    IN  [ok |-> k = n, rows |-> [i \in 1..k |-> all[i].temps]]

\* finish_tree from the energy timeline on, for a report that starts at
\* start_time and ends at finish_time
WriteTimeline(start_time, finish_time, gpu_api) ==
    LET n == TimelineIntervals(start_time, finish_time)
        r == TimelineRows(sys_temps, n, gpu_api)
    IN  /\ status = "ok"
        /\ ~energy_timeline.written
        /\ energy_timeline' = [written |-> TRUE, start_time |-> start_time,
                               intervals |-> n, rows |-> r.rows]
        /\ status' = IF r.ok THEN "finished" ELSE "raised"
        /\ UNCHANGED treeVars
        /\ UNCHANGED <<clock, nEvents, current_core_freqs, current_core_utils,
                       cpus, current_gpu, cpu_table, cpu_table1, gpu_table,
                       sys_temps, evaluation, logger>>

(* ------------------------------ SysLogger ------------------------------ *)
\* adb.command(...) followed by the status assignment
Command(l, cmd, status_after) ==
    [l EXCEPT !.commands = Append(@, cmd), !.status = status_after]

\* SysLogger._setup
logger_setup(l) == Command(l, "setup -nt", "SETUP")

\* SysLogger._finish
logger_finish(l) == Command(l, "finish", "FINISH")

\* logger_stop that returns without calling _finish
logger_stop_NoFinish(l) == Command(l, "stop", "STOP")

\* SysLogger.stop
logger_stop(l) == logger_finish(Command(l, "stop", "STOP"))

\* SysLogger.start
logger_start(l) == Command(logger_setup(logger_stop(l)), "start", "START")

\* the commands sent to the device are kept up to this many
MaxCommands == 18

\* a call of SysLogger.start()
LoggerStart ==
    /\ Len(logger.commands) + 4 <= MaxCommands
    /\ logger' = logger_start(logger)
    /\ UNCHANGED treeVars
    /\ UNCHANGED <<clock, nEvents, status, current_core_freqs,
                   current_core_utils, cpus, current_gpu, cpu_table,
                   cpu_table1, gpu_table, sys_temps, evaluation,
                   energy_timeline>>

\* a call of SysLogger.stop()
LoggerStop ==
    /\ Len(logger.commands) + 2 <= MaxCommands
    /\ logger' = logger_stop(logger)
    /\ UNCHANGED treeVars
    /\ UNCHANGED <<clock, nEvents, status, current_core_freqs,
                   current_core_utils, cpus, current_gpu, cpu_table,
                   cpu_table1, gpu_table, sys_temps, evaluation,
                   energy_timeline>>

(* --------------------------- specification ----------------------------- *)
\* PIDs of scheduler switch events: idle, application, system service and a
\* thread that is not tracked
SchedPids == {0, 1, 2, 4}
\* senders of call and async events, and their targets
CallPids == {1, 2, 4}
TargetPids == {1, 2}
\* senders of reply events, and where replies go
ReplyPids == {2, 3, 4}
ReplyTargets == {1}

\* the trace is read in timestamp order: a scheduler switch carries the time
\* of the previous event or a later time
EventTimes == clock..(clock + 1)
\* the binder handlers never read the time: their events tie with the
\* previous event
BinderTimes == {clock}

\* find_pid_info is only asked about a switched-in PID that has no branch
LookupAnswers(pid) == IF pid \in DOMAIN process_branches THEN {TRUE} ELSE BOOLEAN

\* the binder-thread lookup is only made for a completed transaction that
\* targets the switched-in PID and whose binder branch is not known
BinderLookupAnswers(pid) ==
    IF \E c \in {completed_binder_calls[i] : i \in 1..Len(completed_binder_calls)} :
          /\ c.target_pid = pid
          /\ (IF c.transaction_type = "ASYNC" THEN c.caller_pid ELSE c.binder_thread)
                \notin DOMAIN binder_branches
    THEN BOOLEAN ELSE {TRUE}

Next ==
    \/ \E t \in EventTimes, pid \in SchedPids, next_pid \in SchedPids :
          \E f1 \in BinderLookupAnswers(next_pid), f2 \in LookupAnswers(next_pid) :
             HandleSchedSwitch(t, pid, next_pid, f1, f2)
    \/ \E t \in BinderTimes, pid \in CallPids, target_pid \in TargetPids :
          HandleBinderCall(t, pid, target_pid)
    \/ \E t \in BinderTimes, pid \in CallPids, target_pid \in TargetPids :
          HandleBinderAsync(t, pid, target_pid)
    \/ \E t \in BinderTimes, pid \in ReplyPids, target_pid \in ReplyTargets :
          HandleBinderReply(t, pid, target_pid)

Spec == Init /\ [][Next]_vars

(* ------------------------ steps of the dispatcher ---------------------- *)
\* the completed transaction a switch event matches (0: none)
Matched(ev) ==
    IF SwitchInGate(ev)
    THEN MatchIndex(completed_binder_calls, ev.next_pid) ELSE 0

\* both lookups of the matched transaction are answered
Resolved(ev, f1, f2) ==
    /\ Matched(ev) # 0
    /\ ResolveBinderThread(completed_binder_calls[Matched(ev)], f1).ok
    /\ ResolveTarget(SwitchOut(ev), ev.next_pid, f2).ok

\* the step takes an entry out of the completed queue and handle_event returns
Removes ==
    /\ status' = "ok"
    /\ Len(completed_binder_calls') < Len(completed_binder_calls)

\* the step handles the switch event ev and consumes the transaction it
\* matched: the handler reaches its return after the final del
Consumes(ev, f1, f2) ==
    /\ Removes
    /\ Resolved(ev, f1, f2)
    /\ HandleSchedSwitch(ev.time, ev.pid, ev.next_pid, f1, f2)

(* ------------------------------- C1 ------------------------------------ *)
\* tasks i and i+1 of one branch: start times in order, the earlier task
\* closed and finished by the start of the later one
InOrder(tasks, i) ==
    /\ tasks[i].start_time <= tasks[i + 1].start_time
    /\ ~tasks[i].open
    /\ tasks[i].start_time + tasks[i].duration <= tasks[i + 1].start_time

\* C1: with events handled in non-decreasing timestamp order, in every
\* process branch the start times of the tasks never decrease along the
\* branch and every task is closed at or before the start of the next one.
C1_TasksOrdered ==
    \A p \in DOMAIN process_branches :
        \A i \in 1..(Len(process_branches[p]) - 1) :
            InOrder(process_branches[p], i)

\* a branch holds two tasks with different start times, the first of which
\* ran for some time, and a later task that a binder transaction started
C1_Witness ==
    \E p \in DOMAIN process_branches :
        /\ Len(process_branches[p]) >= 2
        /\ process_branches[p][1].duration > 0
        /\ process_branches[p][2].dep_type = "BINDER"

(* ------------------------------- C2 ------------------------------------ *)
\* what the binder-thread branch holds once the two halves of node are
\* recorded after the tasks it held before: the send (the call event of a
\* synchronous transaction) and then the receive (its reply event)
WithSendReceive(before, node) ==
    before \o <<BinderTask("BINDER_SEND",
                           IF node.first_half # NoEvent
                           THEN node.first_half ELSE node.second_half),
                BinderTask("BINDER_RECV", node.second_half)>>

TasksOf(branches, pid) == IF pid \in DOMAIN branches THEN branches[pid] ELSE <<>>

\* the target branch gained exactly one task, started by the switch event
\* and caused by a binder transaction
OneBinderTaskStarted(ev) ==
    /\ Len(process_branches'[ev.next_pid]) = Len(process_branches[ev.next_pid]) + 1
    /\ Last(process_branches'[ev.next_pid]).dep_type = "BINDER"
    /\ Last(process_branches'[ev.next_pid]).start_time = ev.time

\* C2: whenever a switch-in consumes a completed transaction, exactly one
\* task is started on the target branch, with a binder dependency, and
\* exactly two tasks, send then receive, are appended to the binder-thread
\* branch of the transaction.
C2_ConsumeStartsTask ==
    [][Removes =>
       \A p \in SchedPids, n \in SchedPids, f1 \in BOOLEAN, f2 \in BOOLEAN :
          LET ev == SchedEvent(clock', p, n)
              node == completed_binder_calls[Matched(ev)]
          IN  Consumes(ev, f1, f2) =>
                /\ OneBinderTaskStarted(ev)
                /\ node.binder_thread \in DOMAIN binder_branches'
                /\ binder_branches'[node.binder_thread] =
                      WithSendReceive(TasksOf(binder_branches, node.binder_thread), node)
      ]_vars

(* ------------------------------- C3 ------------------------------------ *)
\* the task of the calling branch that a newly started target task is
\* linked with: the last task, or the last one before the new task when the
\* caller is the target
CallerTask(node) ==
    IF node.caller_pid = node.target_pid
    THEN Len(process_branches'[node.caller_pid]) - 1
    ELSE Len(process_branches'[node.caller_pid])

\* C3: when a switch-in consumes a completed transaction, a new task of the
\* target branch and the caller task name each other, the new task in its
\* preceding-task link and the caller task in its following-task link; the
\* caller task is the last task of the calling branch, or its second-to-last
\* task (the last one before the new task) when the caller PID is the target
\* PID.
C3_DependencyLinked ==
    [][Removes =>
       \A p \in SchedPids, n \in SchedPids, f1 \in BOOLEAN, f2 \in BOOLEAN :
          LET ev == SchedEvent(clock', p, n)
              node == completed_binder_calls[Matched(ev)]
              c == node.caller_pid
              ci == CallerTask(node)
              ti == Len(process_branches'[n])
          IN  Consumes(ev, f1, f2) =>
                /\ ti > Len(process_branches[n])
                /\ ci >= 1
                /\ TaskRef(c, ci) # TaskRef(n, ti)
                /\ process_branches'[n][ti].prev_task = TaskRef(c, ci)
                /\ process_branches'[c][ci].next_task = TaskRef(n, ti)
      ]_vars

(* ------------------------------- C4 ------------------------------------ *)
Range(seq) == {seq[i] : i \in 1..Len(seq)}

\* the binder events held by the two queues
PendingEvents == {e.send_event : e \in Range(pending_binder_calls)}
CompletedFirstHalves ==
    {e.first_half : e \in Range(completed_binder_calls)} \ {NoEvent}

\* the queues hold what the kinds allow: first halves are calls, a completed
\* entry is a lone async event or a call with a later reply that matches it,
\* and no call is pending and completed at once
QueuesByKind ==
    /\ \A e \in PendingEvents : e.trans_type = "CALL"
    /\ \A c \in Range(completed_binder_calls) :
          IF c.first_half = NoEvent
          THEN c.second_half.trans_type = "ASYNC"
          ELSE /\ c.first_half.trans_type = "CALL"
               /\ c.second_half.trans_type = "REPLY"
               /\ c.second_half.id > c.first_half.id
               /\ ReplyMatches(c.second_half,
                               FirstHalfBinderTransaction(c.first_half, c.first_half.target_pid))
    /\ PendingEvents \cap CompletedFirstHalves = {}

\* an async event of a tracked sender goes to the end of the completed queue
\* at once and leaves the pending queue alone
AsyncCompletesAtOnce ==
    \A t \in BinderTimes, p \in CallPids, g \in TargetPids :
        (nextId' = nextId + 1 /\ HandleBinderAsync(t, p, g)) =>
            /\ pending_binder_calls' = pending_binder_calls
            /\ Len(completed_binder_calls') = Len(completed_binder_calls) + 1
            /\ Last(completed_binder_calls').second_half =
                  BinderEvent(nextId + 1, t, p, g, "ASYNC")
            /\ Last(completed_binder_calls').first_half = NoEvent

\* a call of a tracked sender goes to the end of the pending queue only
CallOnlyPends ==
    \A t \in BinderTimes, p \in CallPids, g \in TargetPids :
        (nextId' = nextId + 1 /\ HandleBinderCall(t, p, g)) =>
            /\ completed_binder_calls' = completed_binder_calls
            /\ Len(pending_binder_calls') = Len(pending_binder_calls) + 1
            /\ Last(pending_binder_calls').send_event =
                  BinderEvent(nextId + 1, t, p, g, "CALL")

\* C4: an async transaction of a tracked sender is appended to the completed
\* queue at once and is never pending; a call of a tracked sender is only
\* pending, and a completed entry holds a call only together with a later
\* reply that matched it.
C4_AsyncDirectCallAfterReply ==
    /\ []QueuesByKind
    /\ [][AsyncCompletesAtOnce /\ CallOnlyPends]_vars

\* a call still waiting for its reply next to a completed async event and a
\* completed call
C4_Witness ==
    /\ pending_binder_calls # <<>>
    /\ \E c \in Range(completed_binder_calls) : c.first_half = NoEvent
    /\ \E c \in Range(completed_binder_calls) : c.first_half # NoEvent

(* ------------------------------- C5 ------------------------------------ *)
\* the first halves a step takes out of the pending queue
Removed == PendingEvents \ PendingEvents'

\* the completed entries that hold the first half e
EntriesOf(comp, e) == {i \in 1..Len(comp) : comp[i].first_half = e}

\* the step handles the reply event of sender p and the reply matches the
\* first half whose call event is e
RepliedBy(e, t, p, g) ==
    /\ p \in FirstHalfBinderTransaction(e, e.target_pid).child_pids
          \/ p = e.target_pid
    /\ HandleBinderReply(t, p, g)
    /\ EntriesOf(completed_binder_calls, e) = {}
    /\ Cardinality(EntriesOf(completed_binder_calls', e)) = 1
    /\ \A i \in EntriesOf(completed_binder_calls', e) :
          completed_binder_calls'[i].second_half =
              BinderEvent(nextId + 1, t, p, g, "REPLY")

\* a first half leaves the pending queue only for the completed queue: the
\* step that removes first halves handles a reply that matches each of them,
\* adds one completed entry for each and keeps every other first half
StaysPending(entry) == entry.send_event \notin Removed

RemovedByReply ==
    Removed # {} =>
        /\ \A e \in Removed :
              \E t \in BinderTimes, p \in ReplyPids, g \in ReplyTargets :
                  RepliedBy(e, t, p, g)
        /\ Len(completed_binder_calls') =
              Len(completed_binder_calls) + Cardinality(Removed)
        /\ pending_binder_calls' = SelectSeq(pending_binder_calls, StaysPending)

\* what enters the pending queue is the event of the step, under a new id,
\* so a first half that was removed never comes back
PushedFresh ==
    \A e \in PendingEvents' \ PendingEvents :
        e.id = nextId + 1 /\ nextId' = nextId + 1

\* no first half is held twice, in either queue or across them
HeldOnce ==
    /\ Cardinality(PendingEvents) = Len(pending_binder_calls)
    /\ \A e \in CompletedFirstHalves :
          Cardinality(EntriesOf(completed_binder_calls, e)) = 1
    /\ PendingEvents \cap CompletedFirstHalves = {}

\* C5: a pending first half leaves the pending queue at most once, only in
\* the handling of a reply whose sender is one of its binder-thread children
\* or its target PID, and each removal appends exactly one completed entry
\* that pairs the first half with that reply; no first half is lost or
\* duplicated.
C5_PendingRemovedOnce ==
    /\ []HeldOnce
    /\ [][RemovedByReply /\ PushedFresh]_vars

\* a reply completed one call while a call that it does not match is still
\* pending
C5_Witness ==
    /\ pending_binder_calls # <<>>
    /\ \E c \in Range(completed_binder_calls) :
          /\ c.first_half # NoEvent
          /\ \A e \in PendingEvents :
                ~ReplyMatches(c.second_half,
                              FirstHalfBinderTransaction(e, e.target_pid))

(* ------------------------------- C6 ------------------------------------ *)
\* C6: a single reply event completes at most one pending first half, the
\* most recently pushed one that matches; older matching first halves stay
\* pending.
C6_ReplyCompletesOne ==
    [][\A t \in BinderTimes, p \in ReplyPids, g \in ReplyTargets :
          HandleBinderReply(t, p, g) =>
              /\ Len(pending_binder_calls') >= Len(pending_binder_calls) - 1
              /\ Len(completed_binder_calls') <= Len(completed_binder_calls) + 1
      ]_vars

(* ------------------------------- C7 ------------------------------------ *)
\* the positions <<branch, index>> of the binder tasks recorded so far
BinderPositions(branches) ==
    UNION {{<<b, i>> : i \in 1..Len(branches[b])} : b \in DOMAIN branches}

\* the positions that hold the send of a transaction
SendPositions ==
    {q \in BinderPositions(binder_branches) :
        /\ q[2] < Len(binder_branches[q[1]])
        /\ binder_branches[q[1]][q[2]].type = "BINDER_SEND"}

\* the send and receive of the completed transaction c are recorded at pos
RecordedAt(c, pos) ==
    LET tasks == binder_branches[pos[1]]
    IN  /\ tasks[pos[2]].event =
              (IF c.first_half # NoEvent THEN c.first_half ELSE c.second_half)
        /\ tasks[pos[2] + 1].event = c.second_half

\* the two tasks of one transaction are recorded in one place only
RecordedOnce ==
    \A q1 \in SendPositions, q2 \in SendPositions :
        (/\ binder_branches[q1[1]][q1[2]].event = binder_branches[q2[1]][q2[2]].event
         /\ binder_branches[q1[1]][q1[2] + 1].event = binder_branches[q2[1]][q2[2] + 1].event)
        => q1 = q2

\* once handle_event has returned, a transaction whose tasks are recorded is
\* no longer in the completed queue
RecordedIsRemoved ==
    status = "ok" =>
        \A c \in Range(completed_binder_calls) :
            \A pos \in SendPositions : ~RecordedAt(c, pos)

\* the number of binder tasks recorded so far
Recorded(branches) == Cardinality(BinderPositions(branches))

\* one event takes at most one entry out of the completed queue and records
\* the tasks of at most one transaction
AtMostOneConsumed ==
    /\ Len(completed_binder_calls') >= Len(completed_binder_calls) - 1
    /\ Recorded(binder_branches') <= Recorded(binder_branches) + 2

LookupFails(ev, f1, f2) ==
    /\ Matched(ev) # 0
    /\ ~Resolved(ev, f1, f2)
    /\ HandleSchedSwitch(ev.time, ev.pid, ev.next_pid, f1, f2)

\* a completed transaction that is resolved without asking the device
NeedsNoLookup(c) ==
    IF c.transaction_type = "ASYNC"
    THEN get_pid_info(c.caller_pid, FALSE)
    ELSE c.binder_thread \in DOMAIN binder_branches

\* the step is no binder event that was stored, and the completed queue
\* holds a transaction whose resolution has to ask the device
MayFail ==
    /\ nextId' = nextId
    /\ \E c \in Range(completed_binder_calls) :
          \/ ~NeedsNoLookup(c)
          \/ c.target_pid \notin DOMAIN process_branches

\* the entries older than the matched one that target the same PID and can
\* be resolved
OlderResolvable(ev) ==
    {y \in 1..(Matched(ev) - 1) :
        /\ completed_binder_calls[y].target_pid = ev.next_pid
        /\ NeedsNoLookup(completed_binder_calls[y])}

\* C8: when the lookup for a matched completed transaction returns nothing,
\* the entry is discarded and the scan goes on, so that an older resolvable
\* entry for the same incoming PID is consumed by the same switch event.
C8_ScanContinues ==
    [][MayFail =>
       \A p \in SchedPids, n \in SchedPids, f1 \in BOOLEAN, f2 \in BOOLEAN :
          LET ev == SchedEvent(clock', p, n)
          IN  (LookupFails(ev, f1, f2) /\ OlderResolvable(ev) # {}) =>
                 \E y \in OlderResolvable(ev) :
                    /\ completed_binder_calls[y] \notin Range(completed_binder_calls')
                    /\ Len(completed_binder_calls') = Len(completed_binder_calls) - 2
      ]_vars

(* ------------------------------- C9 ------------------------------------ *)
\* the ids of the binder events the engine still holds somewhere
HeldIds ==
    {e.id : e \in PendingEvents \cup CompletedFirstHalves}
    \cup {c.second_half.id : c \in Range(completed_binder_calls)}
    \cup {binder_branches[q[1]][q[2]].event.id :
            q \in BinderPositions(binder_branches)}

\* C9: a lookup that returns nothing for a matched completed transaction
\* removes exactly that entry from the completed queue, leaves the pending
\* queue and all other completed entries as they are, and handle_event
\* returns, so later events are handled.
C9_DropOnlyOne ==
    [][MayFail =>
       \A p \in SchedPids, n \in SchedPids, f1 \in BOOLEAN, f2 \in BOOLEAN :
          LET ev == SchedEvent(clock', p, n)
          IN  LookupFails(ev, f1, f2) =>
                 /\ completed_binder_calls' =
                       DelAt(completed_binder_calls, Matched(ev))
                 /\ pending_binder_calls' = pending_binder_calls
                 /\ status' = "ok"
      ]_vars

\* a transaction was dropped (the engine no longer holds one of the ids it
\* gave out) while another entry is still queued, and the run goes on
C9_Witness ==
    /\ status = "ok"
    /\ \E id \in 1..nextId : id \notin HeldIds
    /\ completed_binder_calls # <<>>

(* ------------------------------- C10 ----------------------------------- *)
\* C10: for every scheduler switch event whose outgoing PID is tracked and
\* not the idle PID, the current task of the outgoing PID is closed at the
\* event's time, whatever the incoming PID is.
C10_OutgoingClosed ==
    [][nextId' = nextId =>
       \A p \in SchedPids, n \in SchedPids, f1 \in BOOLEAN, f2 \in BOOLEAN :
          (/\ p # 0
           /\ p \in app_pids \cup system_pids
           /\ process_branches[p] # <<>>
           /\ Last(process_branches[p]).open
           /\ HandleSchedSwitch(clock', p, n, f1, f2)) =>
              LET i == Len(process_branches[p])
              IN  /\ ~process_branches'[p][i].open
                  /\ process_branches'[p][i].duration =
                        clock' - process_branches[p][i].start_time
      ]_vars

(* ------------------------------- C11 ----------------------------------- *)
\* the incoming branch is the one the switch-out left, with one more task:
\* an open task that starts at the event's time, has no dependency and no
\* links
OneOrdinaryTaskStarted(ev) ==
    LET before == SwitchOut(ev)[ev.next_pid]
        after == process_branches'[ev.next_pid]
    IN  /\ Len(after) = Len(process_branches[ev.next_pid]) + 1
        /\ Last(after) = NewTask(ev.time)
        /\ \A i \in 1..Len(before) :
              /\ after[i].start_time = before[i].start_time
              /\ after[i].dep_type = before[i].dep_type
              /\ ~after[i].open
        /\ \A b \in DOMAIN process_branches \ {ev.pid, ev.next_pid} :
              process_branches'[b] = process_branches[b]

\* no task is started anywhere: every branch other than the outgoing PID's
\* is as it was, and the outgoing PID's branch holds the tasks it held
NoTaskStarted(ev) ==
    /\ DOMAIN process_branches' = DOMAIN process_branches
    /\ \A b \in DOMAIN process_branches :
          /\ Len(process_branches'[b]) = Len(process_branches[b])
          /\ b # ev.pid => process_branches'[b] = process_branches[b]

QueuesUnchanged ==
    /\ pending_binder_calls' = pending_binder_calls
    /\ completed_binder_calls' = completed_binder_calls
    /\ binder_branches' = binder_branches

\* C11: a switch-in of a tracked PID other than the idle PID that no
\* completed transaction targets starts exactly one ordinary task on that
\* PID's branch and leaves both queues as they are; a switch-in of an idle or
\* untracked PID starts no task, changes no branch (but for the closing of
\* the outgoing PID's task by the switch-out half of the event) and no queue.
C11_OrdinarySwitchIn ==
    [][nextId' = nextId =>
       \A n \in {m \in SchedPids : Matched(SchedEvent(clock', 0, m)) = 0} :
          \A p \in SchedPids :
          LET ev == SchedEvent(clock', p, n)
          IN  HandleSchedSwitch(clock', p, n, TRUE, TRUE) =>
                 /\ QueuesUnchanged
                 /\ status' = "ok"
                 /\ IF n # 0 /\ n \in app_pids \cup system_pids
                    THEN OneOrdinaryTaskStarted(ev)
                    ELSE NoTaskStarted(ev)
      ]_vars

\* a branch that ordinary switch-ins gave two tasks, the earlier one closed,
\* while a completed transaction for another PID stays queued
C11_Witness ==
    \E p \in DOMAIN process_branches :
        /\ Len(process_branches[p]) >= 2
        /\ \A i \in 1..Len(process_branches[p]) :
              process_branches[p][i].dep_type = "NONE"
        /\ completed_binder_calls # <<>>
        /\ \A c \in Range(completed_binder_calls) : c.target_pid # p

(* ------------------------------- C12 ----------------------------------- *)
\* what the engine holds: branches, queues, graph and PID tables
EngineState ==
    <<process_branches, binder_branches, pending_binder_calls,
      completed_binder_calls, graph, app_pids, system_pids, binder_pids>>

\* C12: a reply of a tracked system or binder sender that matches no pending
\* first half is kept in the engine state: handling it leaves a trace in a
\* branch, a queue, the graph or a table.
C12_UnmatchedReplyRetained ==
    [][\A t \in BinderTimes, p \in ReplyPids, g \in ReplyTargets :
          (/\ p \in system_pids \cup binder_pids
           /\ \A e \in Range(pending_binder_calls) :
                 ~ReplyMatches(BinderEvent(nextId + 1, t, p, g, "REPLY"), e)
           /\ HandleBinderReply(t, p, g)) =>
              EngineState' # EngineState
      ]_vars

(* ------------------------------- C13 ----------------------------------- *)
\* a trace that is not in timestamp order: an event carries any time up to
\* one past the time of the event before it
AnyTimes == 0..(clock + 1)
\* binder events: the time of the event before, or the tick before that
AnyBinderTimes == {t \in {clock - 1, clock} : t >= 0}

\* handle_event is handed whatever event comes next; it is the same handler
\* whether or not the trace is in order
NextAnyOrder ==
    \/ \E t \in AnyTimes, pid \in SchedPids, next_pid \in SchedPids :
          \E f1 \in BinderLookupAnswers(next_pid), f2 \in LookupAnswers(next_pid) :
             HandleSchedSwitch(t, pid, next_pid, f1, f2)
    \/ \E t \in AnyBinderTimes, pid \in CallPids, target_pid \in TargetPids :
          HandleBinderCall(t, pid, target_pid)
    \/ \E t \in AnyBinderTimes, pid \in CallPids, target_pid \in TargetPids :
          HandleBinderAsync(t, pid, target_pid)
    \/ \E t \in AnyBinderTimes, pid \in ReplyPids, target_pid \in ReplyTargets :
          HandleBinderReply(t, pid, target_pid)

SpecAnyOrder == Init /\ [][NextAnyOrder]_vars

\* C13: an event whose timestamp is earlier than that of the event handled
\* before it is rejected: handling it changes no branch, no queue and no
\* table.
C13_MisorderedRejected ==
    [][clock' < clock => EngineState' = EngineState]_vars

(* ------------------------------- C14 ----------------------------------- *)
\* C14: when a switch-in matches a completed transaction whose calling
\* branch has no task yet, handle_event returns, the entry is removed from
\* the completed queue and the switch-in task is started on the target
\* branch.
C14_EmptyCallerNoAbort ==
    [][(nextId' = nextId /\ completed_binder_calls # <<>>) =>
       \A p \in SchedPids, n \in SchedPids, f1 \in BOOLEAN, f2 \in BOOLEAN :
          LET ev == SchedEvent(clock', p, n)
              node == completed_binder_calls[Matched(ev)]
          IN  (/\ Resolved(ev, f1, f2)
               /\ SwitchOut(ev)[node.caller_pid] = <<>>
               /\ HandleSchedSwitch(clock', p, n, f1, f2)) =>
                  /\ status' = "ok"
                  /\ completed_binder_calls' =
                        DelAt(completed_binder_calls, Matched(ev))
                  /\ Len(process_branches'[n]) = Len(process_branches[n]) + 1
                  /\ Last(process_branches'[n]).start_time = ev.time
      ]_vars

(* ------------------------------- C15 ----------------------------------- *)
\* cpu_freq events: the core the event names, its frequency; the trace
\* reader passes utilization 0
FreqTimes == {clock}
FreqUtils == {0}

NextFreq ==
    \E t \in FreqTimes, target_cpu \in Cores, freq \in FreqValues, util \in FreqUtils :
        HandleFreqChange(t, target_cpu, freq, util)

SpecFreq == Init /\ [][NextFreq]_vars

\* the four cores of the cluster that core c belongs to
ClusterOf(c) ==
    LET first == (c \div ClusterSize) * ClusterSize
    IN  first..(first + ClusterSize - 1)

\* C15: a frequency change event sets the frequency of exactly the four
\* cores of the cluster of the core it names, leaves the four cores of the
\* other cluster as they are, and addresses no core outside 0..7 (the
\* handler returns).
C15_ClusterFreqSet ==
    [][\A c \in Cores, f \in FreqValues, u \in FreqUtils :
          HandleFreqChange(clock', c, f, u) =>
              /\ status' = "ok"
              /\ \A i \in Cores :
                    current_core_freqs'[i] =
                        IF i \in ClusterOf(c) THEN f ELSE current_core_freqs[i]
      ]_vars

(* ------------------------------- C16 ----------------------------------- *)
\* cpu_idle events of core 0: the state entered (0 or 1) or the exit from
\* idle, at the time of the event before or up to three ticks later
IdleStates == {0, 1, IdleExit}
IdleTimes == clock..(clock + 3)

NextUtil ==
    \/ \E t \in IdleTimes, state \in IdleStates : HandleIdleEvent(t, state)
    \/ CompileTable

SpecUtil == Init /\ [][NextUtil]_vars

\* the timestamps get_util is asked about: from before the table's start to
\* past its end
QueryTimes ==
    {ts \in (cpu_table.start_time - Len(cpu_table.utils) - 2)
            ..(cpu_table.start_time + Len(cpu_table.utils) + 2) : ts >= 0}

\* the absolute times of the first and of the last cell of the table
FirstSampleTime == cpu_table.start_time
LastSampleTime == cpu_table.start_time + Len(cpu_table.utils) - 1

Compiled == status = "ok" /\ cpu_table.compiled /\ cpu_table.utils # <<>>

\* C16: once the table is compiled, get_util at a time before the first
\* recorded sample returns the first sample's value and at a time after the
\* last recorded sample returns the last sample's value.
C16_ClampToBoundary ==
    Compiled =>
        \A ts \in QueryTimes :
            /\ ts < FirstSampleTime => get_util(cpu_table, ts) = cpu_table.utils[1]
            /\ ts > LastSampleTime => get_util(cpu_table, ts) = Last(cpu_table.utils)

(* ------------------------------- C17 ----------------------------------- *)
\* C17: get_util returns 0.0 for every timestamp outside the compiled range:
\* at or before the table's start and beyond the filled length.
C17_OutOfRangeZero ==
    Compiled =>
        \A ts \in QueryTimes :
            (ts <= FirstSampleTime \/ ts > LastSampleTime) =>
                get_util(cpu_table, ts) = 0

(* ------------------------------- C18 ----------------------------------- *)
\* C18: for every timestamp inside the compiled range get_util returns the
\* cell at offset timestamp minus table start, the cell compile filled for
\* the interval that contains the timestamp.
C18_InRangeCell ==
    Compiled =>
        \A ts \in QueryTimes :
            (ts >= FirstSampleTime /\ ts <= LastSampleTime) =>
                get_util(cpu_table, ts) =
                    cpu_table.utils[(ts - cpu_table.start_time) + 1]

(* ------------------------------- C19 ----------------------------------- *)
Min2(a, b) == IF a <= b THEN a ELSE b
Max2(a, b) == IF a >= b THEN a ELSE b

\* GPU samples: the table may be given its start first, then mali events
\* arrive, none before the table's start, at the time of the last event or
\* up to three ticks later
GpuStartTimes == {1, 2}
GpuUtils == {0, 1}
\* the frequency of a mali event: the GPU is off, or at an operating point
GpuFreqs == {0, 2}
GpuTimes ==
    LET from == Max2(clock, gpu_table.start_time) IN from..(from + 3)

NextGpu ==
    \/ \E st \in GpuStartTimes, u \in GpuUtils : GpuInit(st, 0, u)
    \/ \E t \in GpuTimes, f \in GpuFreqs, u \in GpuUtils :
          HandleMaliUtil(t, f, u)

SpecGpu == Init /\ [][NextGpu]_vars

\* the absolute times of the recorded GPU timeline
GpuTimeline ==
    {t \in gpu_table.start_time
           ..(gpu_table.start_time + gpu_table.last_event_time) : t >= 1}

GpuRecorded == status = "ok" /\ gpu_table.events # <<>>

\* C19: for all t0 <= t1 <= t2 inside the recorded GPU timeline, the duration
\* get_energy counts for each interval over [t0, t2] is the sum of the
\* durations it counts over [t0, t1] and over [t1, t2], whenever the three
\* calls return.
C19_EnergyAdditive ==
    GpuRecorded =>
        \A t0 \in GpuTimeline : \A t1 \in GpuTimeline : \A t2 \in GpuTimeline :
            (t0 <= t1 /\ t1 <= t2) =>
                LET whole == get_energy(gpu_table, t0, t2)
                    left == get_energy(gpu_table, t0, t1)
                    right == get_energy(gpu_table, t1, t2)
                IN  (whole.ok /\ left.ok /\ right.ok) =>
                       \A i \in 1..Len(gpu_table.events) :
                          whole.counted[i] = left.counted[i] + right.counted[i]

(* ------------------------------- C20 ----------------------------------- *)
\* the length of the intersection of an interval with [rs, rf]
Overlap(event, rs, rf) ==
    Max2(0, Min2(rf, event.start_time + event.duration)
            - Max2(rs, event.start_time))

\* C20: over [start, end] inside the recorded GPU timeline, the duration
\* get_energy counts for each interval, when it returns, is the length of
\* the interval's intersection with [start, end].
C20_CountedIsOverlap ==
    GpuRecorded =>
        \A start \in GpuTimeline : \A end \in GpuTimeline :
            start <= end =>
                LET r == get_energy(gpu_table, start, end)
                IN  r.ok => \A i \in 1..Len(gpu_table.events) :
                       r.counted[i] =
                          Overlap(gpu_table.events[i],
                                  start - gpu_table.start_time,
                                  end - gpu_table.start_time)

(* ------------------------------- C21 ----------------------------------- *)
\* an interval overlaps [rs, rf] when the two share at least one time
Overlaps(event, rs, rf) ==
    Max2(rs, event.start_time) <= Min2(rf, event.start_time + event.duration)

\* C21: over [start, end] inside the recorded GPU timeline, get_energy ends
\* in an error exactly when an interval overlapping [start, end] has zero
\* duration or zero frequency; an interval that does not overlap the range
\* cannot make the call fail. The temperature is nonzero throughout.
C21_FailsOnOverlappingDataError ==
    GpuRecorded =>
        \A start \in GpuTimeline : \A end \in GpuTimeline :
            start <= end =>
                LET rs == start - gpu_table.start_time
                    rf == end - gpu_table.start_time
                IN  ~get_energy(gpu_table, start, end).ok <=>
                       \E i \in 1..Len(gpu_table.events) :
                          /\ Overlaps(gpu_table.events[i], rs, rf)
                          /\ \/ gpu_table.events[i].duration = 0
                             \/ gpu_table.events[i].freq = 0

(* ------------------------------- C22 ----------------------------------- *)
\* exynos_temp samples: four big-core temperatures, their mean for the
\* little cluster, and the GPU's
TempTimes == 1..5
TempValues == {10, 20}
TempEvent(t, v) ==
    TempLogEntry(t, v, v + 4, v + 8, v + 12,
                 (v + (v + 4) + (v + 8) + (v + 12)) \div 4, v + 1)

MaxTemps == 3

\* the logged samples: up to MaxTemps entries with increasing times
TempLogs ==
    {us \in UNION {[1..n -> {TempEvent(t, v) : t \in TempTimes, v \in TempValues}]
                   : n \in 0..MaxTemps} :
        \A i \in 1..(Len(us) - 1) : us[i].time < us[i + 1].time}

InitTemp ==
    /\ InitTree
    /\ InitMetrics
    /\ \E us \in TempLogs : sys_temps = [NewSystemTemps EXCEPT !.unprocessed = us]
    /\ evaluation = NoEvaluation
    /\ InitReporting

NextTemp == CompileTemps

SpecTemp == InitTemp /\ [][NextTemp]_vars

\* the sample in effect at ts: the first one up to the first sample's time,
\* the last one from the last sample's time on, between them the latest
\* sample taken at or before ts
SampleAt(us, ts) ==
    IF ts <= us[1].time THEN us[1]
    ELSE IF ts >= Last(us).time THEN Last(us)
    ELSE LET i == CHOOSE j \in 1..Len(us) :
                     /\ us[j].time <= ts
                     /\ \A k \in 1..Len(us) : us[k].time <= ts => k <= j
         IN  us[i]

TempQueryTimes == 0..(Last(sys_temps.unprocessed).time + 2)
TempChannels == -1..7

TempsCompiled == status = "ok" /\ sys_temps.compiled

\* C22: after the temperature table is compiled from samples with increasing
\* times, get_temp(ts, channel) returns the value of the first sample for ts
\* at or before its time, of the last sample for ts at or after its time, and
\* otherwise of the latest sample taken at or before ts; channel -1 reads the
\* GPU, 0 to 3 the little cluster, 4 to 7 the big core channel mod 4.
C22_TempLookup ==
    TempsCompiled =>
        \A ts \in TempQueryTimes : \A core \in TempChannels :
            LET r == get_temp(sys_temps, ts, core)
                sample == SampleAt(sys_temps.unprocessed, ts)
            IN  /\ r.ok
                /\ r.temp = IF core = -1 THEN sample.gpu
                            ELSE IF core \in 0..3 THEN sample.little
                            ELSE sample.big[(core % 4) + 1]

\* three samples with a gap between them and different values are compiled
C22_Witness ==
    /\ TempsCompiled
    /\ Len(sys_temps.unprocessed) = 3
    /\ sys_temps.unprocessed[1].gpu # sys_temps.unprocessed[2].gpu
    /\ sys_temps.unprocessed[2].gpu # sys_temps.unprocessed[3].gpu
    /\ sys_temps.unprocessed[2].time > sys_temps.unprocessed[1].time + 1
    /\ get_temp(sys_temps, sys_temps.unprocessed[1].time + 1, 5).temp
          = sys_temps.unprocessed[1].big[2]

(* ------------------------------- C29 ----------------------------------- *)
\* cpu_idle events of core 0 that lie one tick, two ticks, more than the
\* window or 300,000 time units after the event before
IdleGaps == {1, 2, UtilWindow + 1, 300000}

NextIdle ==
    \E gap \in IdleGaps, state \in IdleStates : HandleIdleEvent(clock + gap, state)

SpecIdle == Init /\ [][NextIdle]_vars

RECURSIVE TotalDuration(_, _, _)
\* the durations of intervals i..n summed
TotalDuration(events, i, n) ==
    IF i > n THEN 0 ELSE events[i].duration + TotalDuration(events, i + 1, n)

RECURSIVE ActiveDuration(_, _, _)
\* the durations of the active intervals among i..n summed
ActiveDuration(events, i, n) ==
    IF i > n THEN 0
    ELSE (IF Truthy(events[i].state) THEN events[i].duration ELSE 0)
         + ActiveDuration(events, i + 1, n)

\* the oldest interval the trailing window of interval n takes in: the most
\* recent i whose durations up to n reach the threshold, or the first one
WindowFrom(events, n) ==
    LET reaching == {i \in 1..n : TotalDuration(events, i, n) >= UtilWindow}
    IN  IF reaching = {} THEN 1
        ELSE CHOOSE i \in reaching : \A j \in reaching : j <= i

\* C29: every stored interval carries the utilization 100 x active / total
\* accumulated over the intervals up to it taken most recent first, stopping
\* as soon as the total reaches 25,000 time units and taking the whole
\* history when it is shorter.
C29_TrailingWindowUtil ==
    status = "ok" =>
        \A n \in 1..Len(cpu_table.events) :
            LET from == WindowFrom(cpu_table.events, n)
            IN  cpu_table.events[n].util =
                   Util(ActiveDuration(cpu_table.events, from, n),
                        TotalDuration(cpu_table.events, from, n))

\* an idle interval of 300,000 time units follows an active one: its window
\* is the interval alone; and a short interval follows that takes in both
C29_Witness ==
    /\ status = "ok"
    /\ Len(cpu_table.events) = 3
    /\ Truthy(cpu_table.events[1].state)
    /\ cpu_table.events[2].duration = 300000 - 1
    /\ cpu_table.events[2].util = Util(0, 300000 - 1)
    /\ cpu_table.events[3].duration = 1
    /\ Truthy(cpu_table.events[3].state)
    /\ cpu_table.events[3].util = Util(1, 300000)

(* ------------------------------- C30 ----------------------------------- *)
\* cpu_idle events of cores 0 and 1, at the time of the event before or one
\* or three ticks later
CompileGaps == {0, 1, 3}
CompileStates == {0, IdleExit}

NextCompile ==
    \/ \E gap \in CompileGaps, state \in CompileStates :
          HandleIdleEvent(clock + gap, state)
    \/ \E gap \in CompileGaps, state \in CompileStates :
          HandleIdleEvent1(clock + gap, state)
    \/ CompileTables

SpecCompile == Init /\ [][NextCompile]_vars

\* the intervals of a table that cover an offset: from the interval's start
\* up to the offset just before the next interval's start
Covering(tbl, offset) ==
    {i \in 1..Len(tbl.events) :
        /\ tbl.events[i].start_time <= offset
        /\ offset <= tbl.events[i].start_time + tbl.events[i].duration}

\* every cell of the table holds the utilization of the interval that covers
\* its offset, or 0.0 when none does
DenseTable(tbl) ==
    \A k \in 1..Len(tbl.utils) :
        LET covering == Covering(tbl, k - 1)
        IN  IF covering = {} THEN tbl.utils[k] = 0
            ELSE \A i \in covering : tbl.utils[k] = Round2(tbl.events[i].util)

BothCompiled == cpu_table.compiled /\ (status = "ok" => cpu_table1.compiled)

\* C30: compile raises no IndexError, whatever the start times of the cores
\* are, and afterwards, for each core, every offset from an interval's start
\* up to the offset just before the next interval's start holds that
\* interval's utilization and every offset no interval covers holds 0.0.
C30_DenseLookup ==
    BothCompiled =>
        /\ status = "ok"
        /\ DenseTable(cpu_table)
        /\ DenseTable(cpu_table1)

\* two cores with different start times are compiled; core 0 has two
\* intervals of different utilization that meet, core 1 ends earlier and its
\* table has cells that no interval covers
C30_Witness ==
    /\ status = "ok"
    /\ cpu_table.compiled /\ cpu_table1.compiled
    /\ cpu_table.start_time # cpu_table1.start_time
    /\ cpu_table.start_time # 0 /\ cpu_table1.start_time # 0
    /\ Len(cpu_table.events) = 2
    /\ cpu_table.events[1].duration > 0
    /\ cpu_table.events[2].duration > 0
    /\ Round2(cpu_table.events[1].util) # Round2(cpu_table.events[2].util)
    /\ \E k \in 1..Len(cpu_table1.utils) : Covering(cpu_table1, k - 1) = {}

(* ------------------------------- C23 ----------------------------------- *)
InitEval ==
    /\ InitTree
    /\ InitMetrics
    /\ sys_temps = NewSystemTemps
    /\ \E task \in Tasks, core_utils \in CoreUtils :
          evaluation = [evaluated |-> FALSE, task |-> task,
                        core_utils |-> core_utils]
    /\ InitReporting

NextEval == Evaluate

SpecEval == InitEval /\ [][NextEval]_vars

Evaluated == evaluation.evaluated
TagsOf(type) ==
    {i \in 1..Len(evaluation.tags) : evaluation.tags[i].type = type}

\* C23: a task tagged B2L_REALLOC at a little-cluster frequency leaves every
\* little core at or below 100% at that frequency once its migration-scaled
\* load is added to the chosen little core, and its finish time on the
\* little core is strictly before the start time of its dependent successor.
C23_B2LFitsAndMeetsDeadline ==
    Evaluated =>
        \A i \in TagsOf("B2L_REALLOC") :
            LET task == evaluation.task
                little_cores == SubSeq(evaluation.measured, 1, 4)
                f == evaluation.tags[i].freq
                cur == task.cpu_freq[1]
            IN  /\ FitsAt(little_cores, cur, f)
                /\ NewUtilOnTargetFits(task, little_cores, cur, f)
                /\ task.dependency.present
                /\ FinishTimeOnLittle(task, AvailableCycles(little_cores, cur, f))
                      < task.dependency.start_time

(* ------------------------------- C24 ----------------------------------- *)
\* the evaluation of the task came to the same-cluster check: nothing was
\* raised before it
CameToSameCluster == evaluation.raised => evaluation.same_cluster

\* C24: a task with cycles and without a dependent successor gets neither
\* B2L_REALLOC nor DVFS_AFTER_REALLOC, whatever the little-cluster
\* utilizations are, and its evaluation comes to the same-cluster check.
C24_NoDependencyOnlySameCluster ==
    (Evaluated /\ ~evaluation.skipped /\ ~evaluation.task.dependency.present) =>
        /\ TagsOf("B2L_REALLOC") = {}
        /\ TagsOf("DVFS_AFTER_REALLOC") = {}
        /\ CameToSameCluster

(* ------------------------------- C25 ----------------------------------- *)
\* a little-cluster frequency passes the utilization test and the deadline
\* test of the big-to-little search
PassesBoth(task, little_cores, freq) ==
    /\ FitsAt(little_cores, task.cpu_freq[1], freq)
    /\ AvailableCycles(little_cores, task.cpu_freq[1], freq) # 0
    /\ task.dependency.present
    /\ FinishTimeOnLittle(task, AvailableCycles(little_cores, task.cpu_freq[1],
                                                freq))
          < task.dependency.start_time

\* C25: a task gets at most one B2L_REALLOC tag, and the frequency recorded
\* with it is the lowest frequency of the little-cluster table that passes
\* both the utilization test and the deadline test.
C25_LowestFeasibleLittleFreq ==
    Evaluated =>
        /\ Cardinality(TagsOf("B2L_REALLOC")) <= 1
        /\ \A i \in TagsOf("B2L_REALLOC") :
              LET task == evaluation.task
                  little_cores == SubSeq(evaluation.measured, 1, 4)
                  f == evaluation.tags[i].freq
              IN  /\ \E k \in 1..Len(LittleFreqs) : LittleFreqs[k] = f
                  /\ PassesBoth(task, little_cores, f)
                  /\ \A k \in 1..Len(LittleFreqs) :
                        LittleFreqs[k] < f =>
                           ~PassesBoth(task, little_cores, LittleFreqs[k])

\* a task is tagged at the second frequency of the table: at the first one
\* the little cores fit but the task would miss its successor's start
C25_Witness ==
    /\ Evaluated
    /\ \E i \in TagsOf("B2L_REALLOC") : evaluation.tags[i].freq = LittleFreqs[2]
    /\ FitsAt(SubSeq(evaluation.measured, 1, 4), evaluation.task.cpu_freq[1],
              LittleFreqs[1])
    /\ ~PassesBoth(evaluation.task, SubSeq(evaluation.measured, 1, 4),
                   LittleFreqs[1])

(* ------------------------------- C26 ----------------------------------- *)
\* the frequency table of the cluster of a core, as a set
ClusterFreqs(cpu) ==
    IF cpu <= 3 THEN {LittleFreqs[k] : k \in 1..Len(LittleFreqs)}
    ELSE {BigFreqs[k] : k \in 1..Len(BigFreqs)}

\* the table frequencies strictly below the current one at which the four
\* cores of the task's cluster stay at or below 100%
FeasibleBelow(task, core_utils) ==
    {g \in ClusterFreqs(task.cpu) :
        /\ g < CurCpuFreq(task)
        /\ FitsAt(ClusterUtils(core_utils, task.cpu), CurCpuFreq(task), g)}

\* C26: a task whose evaluation comes to the same-cluster check is tagged
\* DVFS exactly when its cluster is not at its minimum frequency and some
\* table frequency strictly below the current one keeps the four cores of
\* the cluster at or below 100% after scaling by current / candidate; the
\* frequency recorded is the lowest such frequency and there is at most one
\* DVFS tag.
C26_DvfsLowestFeasible ==
    (Evaluated /\ ~evaluation.skipped /\ CameToSameCluster) =>
        LET task == evaluation.task
            feasible == FeasibleBelow(task, evaluation.core_utils)
            at_minimum ==
                \A g \in ClusterFreqs(task.cpu) : CurCpuFreq(task) <= g
        IN  /\ Cardinality(TagsOf("DVFS")) <= 1
            /\ TagsOf("DVFS") # {} <=> (~at_minimum /\ feasible # {})
            /\ \A i \in TagsOf("DVFS") :
                  /\ evaluation.tags[i].freq \in feasible
                  /\ \A g \in feasible : evaluation.tags[i].freq <= g

NextReport ==
    \/ Next
    \/ \E visited \in SUBSET DOMAIN process_branches,
          raising \in DOMAIN process_branches \cup {NoPid} :
          FinishTree(visited, raising)

SpecReport == Init /\ [][NextReport]_vars

TimelineStarts == {1, 3}
TimelineDurations == {0, 2, 4}

NextTimeline ==
    \/ CompileTemps
    \/ \E start_time \in TimelineStarts, d \in TimelineDurations,
          gpu_api \in BOOLEAN :
          WriteTimeline(start_time, start_time + d, gpu_api)

SpecTimeline == InitTemp /\ [][NextTimeline]_vars

\* the temperatures in effect at the absolute time ts, as (big, little, GPU)
TempsAt(ts) ==
    <<get_temp(sys_temps, ts, 4).temp, get_temp(sys_temps, ts, 0).temp,
      get_temp(sys_temps, ts, -1).temp>>

\* C31: once the temperature table is compiled and the energy timeline is
\* written, the row of every interval i holds the big, little and GPU
\* temperatures get_temp gives at the absolute time report start + i x
\* interval length.
C31_TimelineTempsAtIntervalTime ==
    (sys_temps.compiled /\ energy_timeline.written) =>
        \A i \in 0..(energy_timeline.intervals - 1) :
            /\ i + 1 <= Len(energy_timeline.rows)
            /\ energy_timeline.rows[i + 1]
                  = TempsAt(energy_timeline.start_time + i * TimelineStep)

(* ------------------------------- C32 ----------------------------------- *)
\* the trace from the point where the application thread has been switched
\* in once: its branch holds the task that switch-in started, still running
InitLinks ==
    /\ app_pids = InitAppPids
    /\ system_pids = InitSystemPids
    /\ binder_pids = InitBinderPids
    /\ process_branches =
          [p \in InitAppPids \cup InitSystemPids |->
              IF p = 1 THEN SwitchInTasks(<<>>, 0) ELSE <<>>]
    /\ binder_branches = [p \in InitBinderPids |-> <<>>]
    /\ pending_binder_calls = <<>>
    /\ completed_binder_calls = <<>>
    /\ graph = {}
    /\ clock = 0
    /\ nextId = 0
    /\ nEvents = 0
    /\ status = "ok"
    /\ InitMetrics
    /\ sys_temps = NewSystemTemps
    /\ evaluation = NoEvaluation
    /\ InitReporting

SpecLinks == InitLinks /\ [][Next]_vars

\* the tasks of the process branches, as references
TaskRefs ==
    UNION {{TaskRef(p, i) : i \in 1..Len(process_branches[p])}
              : p \in DOMAIN process_branches}
TaskOf(ref) == process_branches[ref.pid][ref.idx]

\* C32: in every reachable state the dependency links agree: whenever a task
\* T names a task P as its preceding task, P names T as its following task.
C32_LinksMutual ==
    \A t \in TaskRefs :
        TaskOf(t).prev_task # NoTask =>
            TaskOf(TaskOf(t).prev_task).next_task = t

(* ------------------------------- C33 ----------------------------------- *)
\* C33: in every reachable state no task names itself as its preceding or as
\* its following task, whether the consumed transaction's caller PID is its
\* target PID or not and however few tasks the calling branch holds.
C33_NoSelfLink ==
    \A t \in TaskRefs :
        /\ TaskOf(t).prev_task # t
        /\ TaskOf(t).next_task # t

\* a transaction a thread sent to itself was consumed and linked the new task
\* to the task before it in the same branch
C33_Witness ==
    \E t \in TaskRefs :
        /\ TaskOf(t).dep_type = "BINDER"
        /\ TaskOf(t).prev_task = TaskRef(t.pid, t.idx - 1)
        /\ TaskOf(TaskOf(t).prev_task).next_task = t

(* ------------------------------- C34 ----------------------------------- *)
\* the scheduler also switches binder threads in and out: PID 3 is the binder
\* thread of service 2
BinderSchedPids == {3}

\* the threads of the transactions are application thread 1, service 2 and
\* its binder thread: calls and async transactions come from 1, replies from
\* 2 and its binder thread
NextBinderSched ==
    \/ \E t \in EventTimes, pid \in {1, 2} \cup BinderSchedPids,
          next_pid \in {1, 2} \cup BinderSchedPids :
          \E f1 \in BinderLookupAnswers(next_pid) :
             HandleSchedSwitch(t, pid, next_pid, f1, TRUE)
    \/ \E t \in BinderTimes, target_pid \in TargetPids :
          HandleBinderCall(t, 1, target_pid)
    \/ \E t \in BinderTimes, target_pid \in TargetPids :
          HandleBinderAsync(t, 1, target_pid)
    \/ \E t \in BinderTimes, pid \in {2} \cup BinderSchedPids,
          target_pid \in ReplyTargets :
          HandleBinderReply(t, pid, target_pid)

SpecBinderSched == Init /\ [][NextBinderSched]_vars

\* the tasks of a binder branch, none for a PID without a branch
BinderTasksOf(bb, b) == IF b \in DOMAIN bb THEN bb[b] ELSE <<>>

\* the step is a scheduler switch whose switch-in matched a completed
\* transaction recorded for binder thread b
SwitchInMatching(b) ==
    \E pid \in SchedPids \cup BinderSchedPids,
       next_pid \in SchedPids \cup BinderSchedPids :
        LET ev == SchedEvent(clock', pid, next_pid)
        IN  /\ Matched(ev) # 0
            /\ completed_binder_calls[Matched(ev)].binder_thread = b
            /\ \E f1 \in BOOLEAN, f2 \in BOOLEAN :
                  HandleSchedSwitch(clock', pid, next_pid, f1, f2)

\* C34: a step leaves the tasks of every binder branch as they were, or adds
\* exactly a send followed by a receive to the branch of the binder thread of
\* the completed transaction that the step's switch-in matched; so every
\* binder branch holds an even number of tasks.
C34_BinderTasksInPairs ==
    [][\A b \in DOMAIN binder_branches' :
          LET old == BinderTasksOf(binder_branches, b)
              new == binder_branches'[b]
          IN  /\ \/ new = old
                 \/ /\ Len(new) = Len(old) + 2
                    /\ SubSeq(new, 1, Len(old)) = old
                    /\ new[Len(old) + 1].type = "BINDER_SEND"
                    /\ new[Len(old) + 2].type = "BINDER_RECV"
                    /\ SwitchInMatching(b)
              /\ Len(new) % 2 = 0
      ]_vars

\* the binder thread's branch holds the send and the receive of a call that
\* the thread answered, and the target's task was started
C34_Witness ==
    /\ status = "ok"
    /\ Len(binder_branches[3]) = 2
    /\ binder_branches[3][1].event.trans_type = "CALL"
    /\ binder_branches[3][2].event.trans_type = "REPLY"
    /\ \E t \in TaskRefs : TaskOf(t).dep_type = "BINDER"

(* ------------------------------- C35 ----------------------------------- *)
\* the completed transactions a switch-in may match
CompletedNodes ==
    {completed_binder_calls[i] : i \in 1..Len(completed_binder_calls)}

\* C35: in every reachable state every application and system PID of the
\* classifier has a process branch, and for every completed transaction in
\* the queue the branches its consumption indexes exist: the branches of its
\* calling and target PID and, once the binder-thread lookup is answered,
\* the branch of its binder thread (for an async transaction the branch the
\* lookup files under the calling PID).
C35_BranchesExist ==
    /\ (app_pids \cup system_pids) \subseteq DOMAIN process_branches
    /\ \A node \in CompletedNodes :
          /\ node.caller_pid \in DOMAIN process_branches
          /\ (node.target_pid \in app_pids \cup system_pids) =>
                node.target_pid \in DOMAIN process_branches
          /\ \A found \in BOOLEAN :
                LET rb == ResolveBinderThread(node, found)
                IN  rb.ok => node.binder_thread \in DOMAIN rb.bb

\* a binder branch that the constructor did not create was made by a lookup
\* at a switch-in, and its send and receive were recorded
C35_Witness ==
    /\ status = "ok"
    /\ \E b \in DOMAIN binder_branches :
          /\ b \notin InitBinderPids
          /\ Len(binder_branches[b]) = 2

(* ------------------------------- C36 ----------------------------------- *)
\* C36: in the tags of an evaluated task every DVFS_AFTER_REALLOC follows
\* directly on a B2L_REALLOC of the same frequency, so the tasks counted for
\* DVFS after reallocation never outnumber those counted for big-to-little
\* reallocation.
C36_DvfsAfterReallocOnlyWithB2L ==
    Evaluated =>
        /\ \A i \in TagsOf("DVFS_AFTER_REALLOC") :
              /\ i > 1
              /\ evaluation.tags[i - 1] = Tag("B2L_REALLOC", evaluation.tags[i].freq)
        /\ Cardinality(TagsOf("DVFS_AFTER_REALLOC"))
              <= Cardinality(TagsOf("B2L_REALLOC"))

\* a task was moved to the little cluster at another frequency than the
\* cluster's current one, and both tags were recorded
C36_Witness ==
    /\ Evaluated
    /\ TagsOf("DVFS_AFTER_REALLOC") # {}
    /\ \E i \in TagsOf("B2L_REALLOC") :
          evaluation.tags[i].freq # evaluation.task.cpu_freq[1]

(* ------------------------------- C37 ----------------------------------- *)
\* the evaluation ended in the big-to-little search: it raised before it
\* came to the same-cluster check
RaisedInB2L == evaluation.raised /\ ~evaluation.same_cluster

\* C37: the big-to-little search of an evaluated task never raises; a little
\* frequency at which the least-loaded little core has no cycles left is
\* passed over like a frequency at which the little cores do not fit.
C37_B2LNeverAborts ==
    Evaluated =>
        /\ ~RaisedInB2L
        /\ evaluation.task.cpu > 3 /\ ~evaluation.skipped =>
              LET task == evaluation.task
                  little_cores == SubSeq(evaluation.measured, 1, 4)
              IN  \A i \in TagsOf("B2L_REALLOC") :
                     AvailableCycles(little_cores, task.cpu_freq[1],
                                     evaluation.tags[i].freq) > 0

(* ------------------------------- C38 ----------------------------------- *)
\* a utilization between 0 and 100: the quotient lies between 0 and 1
UtilInRange(util) ==
    /\ util.den # 0
    /\ IF util.den > 0 THEN 0 <= util.num /\ util.num <= util.den
       ELSE util.den <= util.num /\ util.num <= 0

\* C38: a step that handles an idle event of a core, at the time of the event
\* before or later, does not end in a division by zero, and after it every
\* stored interval has a duration of at least 0 and a utilization between 0
\* and 100.
C38_IdleIntervalsSane ==
    [][nEvents' = nEvents + 1 =>
          /\ status' = "ok"
          /\ \A n \in 1..Len(cpu_table'.events) :
                /\ cpu_table'.events[n].duration >= 0
                /\ UtilInRange(cpu_table'.events[n].util)
      ]_vars

(* ------------------------------- C39 ----------------------------------- *)
\* C39: after a step that handles an idle event of a core, the recorded core
\* state is active exactly when the event is an idle exit, for the first
\* event of the core and for every later one and whatever idle state an
\* entry names; and the interval a step stores counts as active exactly when
\* the core state recorded before the step is active.
C39_CoreStateFollowsEvent ==
    [][(nEvents' = nEvents + 1 /\ status' = "ok") =>
          /\ \A state \in IdleStates :
                HandleIdleEvent(clock', state) =>
                    (Truthy(cpu_table'.core_state) <=> state = IdleExit)
          /\ Len(cpu_table'.events) = Len(cpu_table.events) + 1 =>
                (Truthy(Last(cpu_table'.events).state)
                    <=> Truthy(cpu_table.core_state))
      ]_vars

(* ------------------------------- C40 ----------------------------------- *)
NextLogger == LoggerStart \/ LoggerStop

SpecLogger == Init /\ [][NextLogger]_vars

\* C40: from any logger state, a call of start() sends the commands stop,
\* finish, setup and start in this order and returns with the status START,
\* a call of stop() sends stop and finish and returns with the status FINISH;
\* the status after a call is never STOP.
C40_LoggerCalls ==
    [][/\ LoggerStart =>
             /\ logger'.commands =
                   logger.commands \o <<"stop", "finish", "setup -nt", "start">>
             /\ logger'.status = "START"
       /\ LoggerStop =>
             /\ logger'.commands = logger.commands \o <<"stop", "finish">>
             /\ logger'.status = "FINISH"
       /\ logger'.status # "STOP"
      ]_vars

\* start() was called on a started logger that had been stopped once before
C40_Witness ==
    /\ logger.status = "START"
    /\ logger.commands =
          <<"stop", "finish", "stop", "finish", "setup -nt", "start",
            "stop", "finish", "setup -nt", "start">>

====
